---- MODULE Spec2Model ----
(***************************************************************************)
(* A state-machine model of msufsort (src/library/msufsort/msufsort.cpp):  *)
(* the improved two-stage suffix sort, the forward Burrows-Wheeler         *)
(* transform built on it, and the partitioned reverse transform.           *)
(*                                                                         *)
(* Positions of the input are numbered from 0 as in the code; the input    *)
(* is held in a TLA+ sequence, so input byte i is input[i + 1].  Suffix    *)
(* array entries are suffix_index values (int32_t): the low 31 bits are    *)
(* the index and the sign bit is preceding_suffix_is_type_a_flag.          *)
(***************************************************************************)
EXTENDS Integers, Sequences, FiniteSets, TLC

\* ----------------------------------------------------------------------
\* Bounds of the model
\* ----------------------------------------------------------------------
\* longest input of the exhaustive family (all byte strings over 0..MaxByte)
MaxLen == 4
\* largest byte value of the exhaustive family
MaxByte == 2
\* largest repetition count of the periodic families (ab)^k, (abc)^k, a(ab)^k c
MaxK == 17
\* largest number of threads
MaxThreads == 2
\* longest input sorted with more than one thread
MaxLenMT == 3

\* ----------------------------------------------------------------------
\* Constants of the program
\* ----------------------------------------------------------------------
\* 0x80000000 as an int32_t
preceding_suffix_is_type_a_flag == (-2147483647) - 1
sa_index_mask == 2147483647
insertion_sort_threshold == 16
\* the sort key window: suffix_value is an unsigned 32-bit integer
sizeof_suffix_value == 4
suffix_is_unsorted_b_type == preceding_suffix_is_type_a_flag
min_match_length_for_tandem_repeats == 2 + sizeof_suffix_value + sizeof_suffix_value

\* x & sa_index_mask, x & preceding_suffix_is_type_a_flag and
\* x | preceding_suffix_is_type_a_flag on int32_t values
IndexOf(x) == IF x < 0 THEN (x + sa_index_mask) + 1 ELSE x
HasFlag(x) == x < 0
WithFlag(x) == IF x < 0 THEN x ELSE (x - sa_index_mask) - 1

Min(x, y) == IF x < y THEN x ELSE y
Max(x, y) == IF x > y THEN x ELSE y

\* ----------------------------------------------------------------------
\* Inputs
\* ----------------------------------------------------------------------
\* the ASCII codes of the letters of the named inputs
Letter == [a |-> 97, b |-> 98, c |-> 99, n |-> 110]

\* every byte value that occurs in some input of the model; tables the code
\* indexes by a byte (or a byte pair) are modelled over these values: the
\* entries of every other value stay zero and their loop iterations do nothing
Alphabet == (0 .. MaxByte) \cup {Letter.a, Letter.b, Letter.c, Letter.n}
Keys == {(c1 * 256) + c2 : c1 \in Alphabet, c2 \in Alphabet}

Strings(n) == [1 .. n -> 0 .. MaxByte]
ExhaustiveInputs == UNION {Strings(n) : n \in 0 .. MaxLen}

RepAB(k) == [i \in 1 .. (2 * k) |-> IF i % 2 = 1 THEN Letter.a ELSE Letter.b]
RepABC(k) == [i \in 1 .. (3 * k) |->
                 IF i % 3 = 1 THEN Letter.a ELSE IF i % 3 = 2 THEN Letter.b ELSE Letter.c]
RepAABC(k) == <<Letter.a>> \o RepAB(k) \o <<Letter.c>>
Banana == <<Letter.b, Letter.a, Letter.n, Letter.a, Letter.n, Letter.a>>
TandemInputs == UNION {{RepAB(k), RepABC(k), RepAABC(k)} : k \in 1 .. MaxK}
\* a^n b for every n of ns, one behind the other: every block ends in a B*
\* suffix with the head ab, and the bytes behind the heads differ
RECURSIVE BlockString(_)
BlockString(ns) ==
    IF ns = <<>> THEN <<>>
    ELSE [j \in 1 .. (Head(ns) + 1) |-> IF j <= Head(ns) THEN Letter.a ELSE Letter.b]
         \o BlockString(Tail(ns))
\* inputs whose B* partition of the head ab has insertion_sort_threshold
\* entries or more, with one, two and three different pivots
PivotInputs ==
    {BlockString(<<1, 1, 1, 1, 1, 1, 2, 1, 1, 1, 3, 2, 1, 1, 2, 2>>),
     BlockString(<<3, 1, 2, 1, 1, 2, 3, 3, 1, 2, 2, 1, 3, 1, 1, 2, 3, 2, 1, 1>>),
     BlockString(<<2, 2, 1, 2, 2, 2, 1, 2, 2, 1, 2, 2, 2, 2, 1, 2, 2>>),
     BlockString(<<1, 1, 1, 2, 1, 1, 1, 1, 1, 3, 1, 1, 1, 1, 1, 1, 2, 1, 1>>)}
\* runs of one period that end differently: the tandem repeats of one
\* partition then have several terminators, some sorting before their repeats
\* and some behind them
TerminatorInputs ==
    {RepAB(7) \o <<Letter.c>> \o RepAB(7) \o <<Letter.a>> \o RepAB(7) \o <<Letter.c>>,
     RepAB(6) \o <<Letter.a>> \o RepAB(6) \o <<Letter.c>> \o RepAB(6) \o <<Letter.a>>
         \o RepAB(6),
     RepABC(5) \o <<Letter.n>> \o RepABC(5) \o <<Letter.a>> \o RepABC(5)}
NamedInputs == TandemInputs \cup PivotInputs \cup TerminatorInputs \cup {Banana}

Threads(p) == 0 .. (p - 1)

VARIABLES
    op,                 \* the public operation that was called
    numThreads,         \* numWorkerThreads_ + 1
    littleEndian,       \* byte order of the host (host_order_type)
    original,           \* the caller's bytes at the time of the call
    input,              \* the buffer [inputBegin_, inputEnd_)
    pc,                 \* position of the calling thread
    pending,            \* threads whose posted task has not completed
    ub,                 \* undefined behaviour met so far ("" if none)
    copyEnd_,           \* the zero padded copy of the tail of the input
    SA,                 \* the suffix array, slots 0 .. inputSize_
    threadBCount, threadACount, bStarCount,
    aCount, bCount, aCount_, bCount_,
    total, bStarTotal, totalBStarCount, bStarOffset,
    partitions, partitionCount,
    frontBucketOffset_, backBucketOffset_,
    callStack,          \* per thread: the calls of multikey_quicksort still to run
    insertionStack,     \* per thread: the stack of a running multikey_insertion_sort
    insertionBegin,     \* per thread: partitionBegin of that insertion sort
    tandemRepeatStack,  \* per thread: the tandem repeats left to complete
    currentSuffix,      \* second stage: the slot the pass is at
    symbol,             \* second stage: the bucket (first byte) the pass is in
    endSuffix,          \* second stage: where the type B part of the bucket ends
    sentinel,           \* BWT left to right pass: the slot of the sentinel row
    sentinelIndex,      \* the sentinel index returned by / passed to the transform
    cache,              \* multi threaded second stage: per thread, the entries read
    sCount,             \* per thread and symbol: the number of entries cached
    dest,               \* per thread and symbol: where the entries are written
    taskBegin, taskEnd, \* per thread: the slots its reading task is given
    roundTrip,          \* the reverse transform was called on the output of the forward one
    ibwtIndex,          \* reverse transform: the vector index
    symbolRange,        \* reverse transform: per thread and symbol, the next index slot
    ibwtPartitionInfo,  \* reverse transform: the partitions still decoding
    decodedInfo,        \* reverse transform: the pieces decoded so far
    availableDecodeSpace,   \* reverse transform: output space handed back
    threadPartitionBegin, threadPartitionEnd    \* per thread: the partitions of its task

inputSize_ == Len(input)
Byte(i) == input[i + 1]
SlotRange == 0 .. inputSize_

ZeroKeys == [k \in Keys |-> 0]
ZeroBytes == [c \in Alphabet |-> 0]

\* ----------------------------------------------------------------------
\* get_suffix_type
\* ----------------------------------------------------------------------
RECURSIVE SkipEqual(_, _)
SkipEqual(p, c) ==
    IF p < inputSize_ /\ Byte(p) = c THEN SkipEqual(p + 1, c) ELSE p

get_suffix_type(suffix) ==
    IF suffix + 1 >= inputSize_ THEN "a"
    ELSE IF Byte(suffix) >= Byte(suffix + 1)
         THEN LET p == SkipEqual(suffix + 1, Byte(suffix))
              IN IF p = inputSize_ \/ Byte(suffix) > Byte(p) THEN "a" ELSE "b"
         ELSE LET p == SkipEqual(suffix + 2, Byte(suffix + 1))
              IN IF p = inputSize_ \/ Byte(suffix + 1) > Byte(p) THEN "bStar" ELSE "b"

\* ----------------------------------------------------------------------
\* first_stage_its: the slices of the input given to the threads
\* ----------------------------------------------------------------------
numSuffixesPerThread == (inputSize_ + numThreads - 1) \div numThreads

RECURSIVE SliceBegin(_)
SliceBegin(t) ==
    IF t = 0 THEN 0
    ELSE Min(SliceBegin(t - 1) + numSuffixesPerThread, inputSize_ - 1)
SliceEnd_Short(t) == Min(SliceBegin(t) + numSuffixesPerThread, inputSize_ - 2)

SliceEnd(t) == Min(SliceBegin(t) + numSuffixesPerThread, inputSize_ - 1)

\* the two-byte key read at a position (big endian)
Key16(current) == (Byte(current) * 256) + Byte(current + 1)

\* one step of the right-to-left classifier shared by count_suffixes and
\* initial_two_byte_radix_sort.  The code shifts an unsigned 32-bit state
\* and reads only (state & 3) and (state & 1); the model keeps those two bits
NextTypeState_NoTypeA(state, c0, c1) ==
    IF (c0 # c1) \/ (state % 2 = 0) THEN (state * 2) % 4 ELSE state

NextTypeState_KeepsRun(state, c0, c1) ==
    LET shifted == IF c0 # c1 THEN (state * 2) % 4 ELSE state
    IN IF c0 > c1 /\ shifted % 2 = 0 THEN shifted + 1 ELSE shifted

NextTypeState(state, c0, c1) ==
    LET shifted == IF (c0 # c1) \/ (state % 2 = 0) THEN (state * 2) % 4 ELSE state
    IN IF c0 > c1 /\ shifted % 2 = 0 THEN shifted + 1 ELSE shifted

\* the type a state stands for: the table count[state & 0x03] that
\* count_suffixes adds to, and the test (state & 0x03) == 2 of the radix sort
TypeOfState(state) ==
    CASE state % 4 = 0 -> "b"
      [] state % 4 = 2 -> "bStar"
      [] OTHER -> "a"

InitialTypeState(begin) ==
    CASE get_suffix_type(begin) = "a" -> 1
      [] get_suffix_type(begin) = "b" -> 0
      [] get_suffix_type(begin) = "bStar" -> 2

\* count_suffixes(begin, end, count): count is the record of the three
\* tables of one thread; count[0] = b, count[1] = count[3] = a, count[2] = bStar.
\* CountSteps runs the iterations of the while loop at the positions current
\* down to stop; CountLoop runs the loop eight iterations at a time, which
\* only keeps the evaluation shallow
RECURSIVE CountSteps(_, _, _, _)
CountSteps(current, stop, state, count) ==
    LET k == Key16(current)
        which == state % 4
        counted ==
            CASE which = 0 -> [count EXCEPT !.b[k] = @ + 1]
              [] which = 2 -> [count EXCEPT !.bStar[k] = @ + 1]
              [] OTHER -> [count EXCEPT !.a[k] = @ + 1]
    IN IF current = stop
       THEN [state |-> state, count |-> counted]
       ELSE LET next == NextTypeState(state, Byte(current - 1), Byte(current))
            IN CASE next \in 0 .. 3 /\ DOMAIN counted # {} ->
                       CountSteps(current - 1, stop, next, counted)

RECURSIVE CountLoop(_, _, _, _)
CountLoop(current, end, state, count) ==
    LET stop == Max(end, current - 7)
        steps == CountSteps(current, stop, state, count)
    IN IF stop - 1 < end
       THEN steps.count
       ELSE LET next == NextTypeState(steps.state, Byte(stop - 1), Byte(stop))
            IN CASE next \in 0 .. 3 /\ DOMAIN steps.count # {} ->
                       CountLoop(stop - 1, end, next, steps.count)

count_suffixes(begin, end, count) ==
    IF begin < end THEN count
    ELSE CountLoop(begin, end, InitialTypeState(begin), count)

\* initial_two_byte_radix_sort(begin, end, bStarOffset): st holds the suffix
\* array and the offsets of the thread.  RadixSteps and RadixLoop divide the
\* while loop as CountSteps and CountLoop do
RECURSIVE RadixSteps(_, _, _, _)
RadixSteps(current, stop, state, st) ==
    LET k == Key16(current)
        flag == IF current > 0 /\ Byte(current - 1) <= Byte(current)
                THEN current ELSE WithFlag(current)
        placed == IF state % 4 = 2
                  THEN [sa |-> [st.sa EXCEPT ![st.offset[k]] = flag],
                        offset |-> [st.offset EXCEPT ![k] = @ + 1]]
                  ELSE st
    IN IF current = stop
       THEN [state |-> state, st |-> placed]
       ELSE LET next == NextTypeState(state, Byte(current - 1), Byte(current))
            IN CASE next \in 0 .. 3 /\ DOMAIN placed # {} ->
                       RadixSteps(current - 1, stop, next, placed)

RECURSIVE RadixLoop(_, _, _, _)
RadixLoop(current, end, state, st) ==
    LET stop == Max(end, current - 7)
        steps == RadixSteps(current, stop, state, st)
    IN IF stop - 1 < end
       THEN steps.st
       ELSE LET next == NextTypeState(steps.state, Byte(stop - 1), Byte(stop))
            IN CASE next \in 0 .. 3 /\ DOMAIN steps.st # {} ->
                       RadixLoop(stop - 1, end, next, steps.st)

initial_two_byte_radix_sort(begin, end, st) ==
    IF begin < end THEN st
    ELSE RadixLoop(begin, end, InitialTypeState(begin), st)

\* the sum of f over the elements of S at which f is not zero
RECURSIVE SumNonZero(_, _)
SumNonZero(f, S) ==
    IF S = {} THEN 0
    ELSE LET x == CHOOSE y \in S : TRUE IN f[x] + SumNonZero(f, S \ {x})
SumOver(f, S) == SumNonZero(f, {x \in S : f[x] # 0})

\* the sum over the threads of one entry of a per-thread table
ThreadSum(table, k) == SumOver([t \in Threads(numThreads) |-> table[t][k]], Threads(numThreads))
HighByte(k) == k \div 256
LowByte(k) == k % 256

\* all orders of a sequence that std::sort by size (the second component) can leave
SortedBySize(seq) ==
    {[i \in 1 .. Len(seq) |-> seq[perm[i]]] :
        perm \in {q \in [1 .. Len(seq) -> 1 .. Len(seq)] :
                     /\ \A i, j \in 1 .. Len(seq) : i # j => q[i] # q[j]
                     /\ \A i \in 1 .. (Len(seq) - 1) : seq[q[i]][2] <= seq[q[i + 1]][2]}}

\* the keys in increasing order as a sequence
RECURSIVE KeySeq(_)
KeySeq(S) ==
    IF S = {} THEN <<>>
    ELSE LET m == CHOOSE x \in S : \A y \in S : x <= y IN <<m>> \o KeySeq(S \ {m})

\* ----------------------------------------------------------------------
\* get_value, compare_suffixes, has_potential_tandem_repeats
\* ----------------------------------------------------------------------
\* the four bytes assembled with the first byte as the least significant one:
\* a load in the byte order of a little endian host without the swap
BigEndian_NotSwapped(b0, b1, b2, b3) ==
    (b3 * 16777216) + (b2 * 65536) + (b1 * 256) + b0

\* a suffix_value read from four bytes and converted from host order to big
\* endian: the first byte in memory is the most significant
BigEndian(b0, b1, b2, b3) == ((((b0 * 256) + b1) * 256) + b2) * 256 + b3
InputValue(p) == BigEndian(Byte(p), Byte(p + 1), Byte(p + 2), Byte(p + 3))
CopyEndValue_Unshifted(c) == BigEndian(copyEnd_[0], copyEnd_[1], copyEnd_[2], copyEnd_[3])

CopyEndValue(c) == BigEndian(copyEnd_[c], copyEnd_[c + 1], copyEnd_[c + 2], copyEnd_[c + 3])
getValueEnd_ == inputSize_ - sizeof_suffix_value

\* get_value(inputBegin_ + offset, index)
get_value(offset, index) ==
    LET inputCurrent == offset + IndexOf(index)
    IN IF inputCurrent >= getValueEnd_
       THEN IF inputCurrent >= inputSize_
            THEN 0
            ELSE CopyEndValue(sizeof_suffix_value - (inputSize_ - inputCurrent))
       ELSE InputValue(inputCurrent)

\* what get_value(inputBegin_ + offset, index) reads: nothing, four bytes of
\* copyEnd_ or four bytes of the input, from the position first on
get_value_reads(offset, index) ==
    LET inputCurrent == offset + IndexOf(index)
    IN IF inputCurrent >= getValueEnd_
       THEN IF inputCurrent >= inputSize_
            THEN [from |-> "nothing", first |-> 0]
            ELSE [from |-> "copyEnd_",
                  first |-> sizeof_suffix_value - (inputSize_ - inputCurrent)]
       ELSE [from |-> "input", first |-> inputCurrent]

\* the loop of compare_suffixes: the positions at which the comparison stops
RECURSIVE CompareLoop(_, _)
CompareLoop(inputCurrentA, inputCurrentB) ==
    IF inputCurrentB <= getValueEnd_ /\ InputValue(inputCurrentB) = InputValue(inputCurrentA)
    THEN CompareLoop(inputCurrentA + sizeof_suffix_value, inputCurrentB + sizeof_suffix_value)
    ELSE <<inputCurrentA, inputCurrentB>>

CompareOrdered(offset, indexA, indexB) ==
    LET stop == CompareLoop(offset + indexA, offset + indexB)
        valueOf(q) == IF q >= getValueEnd_
                      THEN CopyEndValue(sizeof_suffix_value - (inputSize_ - q))
                      ELSE InputValue(q)
    IN IF stop[2] >= getValueEnd_ /\ stop[2] >= inputSize_
       THEN TRUE
       ELSE valueOf(stop[1]) >= valueOf(stop[2])

\* compare_suffixes(inputBegin_ + offset, indexA, indexB), the bool overload
compare_suffixes(offset, indexA, indexB) ==
    IF IndexOf(indexA) > IndexOf(indexB)
    THEN ~CompareOrdered(offset, IndexOf(indexB), IndexOf(indexA))
    ELSE CompareOrdered(offset, IndexOf(indexA), IndexOf(indexB))

\* the bytes of a suffix_value as the host stores them
BytesOf(v) == <<v \div 16777216, (v \div 65536) % 256, (v \div 256) % 256, v % 256>>
HostBytes(v) == IF littleEndian
                THEN <<v % 256, (v \div 256) % 256, (v \div 65536) % 256, v \div 16777216>>
                ELSE BytesOf(v)
\* a suffix_value loaded by the host from four bytes of memory
HostValue(b0, b1, b2, b3) == IF littleEndian THEN BigEndian(b3, b2, b1, b0)
                             ELSE BigEndian(b0, b1, b2, b3)

\* has_potential_tandem_repeats(startingPattern, {endingPattern0, endingPattern1}):
\* startingPattern is looked for at the byte offsets 3, 2, 1, 0 of the array
has_potential_tandem_repeats(startingPattern, endingPattern0, endingPattern1) ==
    LET memory == HostBytes(endingPattern0) \o HostBytes(endingPattern1)
    IN \E begin \in 0 .. (sizeof_suffix_value - 1) :
          HostValue(memory[begin + 1], memory[begin + 2], memory[begin + 3],
                    memory[begin + 4]) = startingPattern

Swap(sa, i, j) == [sa EXCEPT ![i] = sa[j], ![j] = sa[i]]

\* ----------------------------------------------------------------------
\* partition_tandem_repeats
\* ----------------------------------------------------------------------
\* std::sort of [partitionBegin, partitionEnd) by index: the indexes of a
\* partition are distinct, so the sorted order is unique
SortByIndex(sa, partitionBegin, partitionEnd) ==
    [i \in DOMAIN sa |->
        IF i >= partitionBegin /\ i < partitionEnd
        THEN CHOOSE v \in {sa[j] : j \in partitionBegin .. (partitionEnd - 1)} :
                Cardinality({j \in partitionBegin .. (partitionEnd - 1) :
                                IndexOf(sa[j]) < IndexOf(v)}) = i - partitionBegin
        ELSE sa[i]]

\* the first loop: the distance of the first two neighbours that are at most
\* half the match length apart (0 if there are none)
RECURSIVE FindTandemRepeatLength(_, _, _, _, _)
FindTandemRepeatLength(sa, cur, partitionEnd, previousSuffixIndex, half) ==
    IF cur >= partitionEnd THEN 0
    ELSE LET currentSuffixIndex == IndexOf(sa[cur])
         IN IF previousSuffixIndex + half >= currentSuffixIndex
            THEN currentSuffixIndex - previousSuffixIndex
            ELSE FindTandemRepeatLength(sa, cur + 1, partitionEnd, currentSuffixIndex, half)

MoveRepeats_None(sa, cur, partitionBegin, terminatorsEnd, previousSuffixIndex, length) ==
    [sa |-> sa, terminatorsEnd |-> terminatorsEnd]

\* the second loop: the tandem repeats are swapped to the end of the partition
RECURSIVE MoveRepeats(_, _, _, _, _, _)
MoveRepeats(sa, cur, partitionBegin, terminatorsEnd, previousSuffixIndex, length) ==
    IF cur < partitionBegin THEN [sa |-> sa, terminatorsEnd |-> terminatorsEnd]
    ELSE LET currentSuffixIndex == IndexOf(sa[cur])
         IN IF previousSuffixIndex - currentSuffixIndex = length
            THEN MoveRepeats(Swap(sa, terminatorsEnd, cur), cur - 1, partitionBegin,
                             terminatorsEnd - 1, currentSuffixIndex, length)
            ELSE MoveRepeats(sa, cur - 1, partitionBegin, terminatorsEnd,
                             currentSuffixIndex, length)

Reverse_Skipped(sa, partitionBegin, partitionEnd) == sa

\* std::reverse of [partitionBegin, partitionEnd)
Reverse(sa, partitionBegin, partitionEnd) ==
    [i \in DOMAIN sa |->
        IF i >= partitionBegin /\ i < partitionEnd
        THEN sa[(partitionBegin + partitionEnd - 1) - i] ELSE sa[i]]

\* partition_tandem_repeats: the suffix array after the call, the value
\* returned and the records pushed on the tandem repeat stack
partition_tandem_repeats(sa, partitionBegin, partitionEnd, currentMatchLength) ==
    LET sorted == SortByIndex(sa, partitionBegin, partitionEnd)
        tandemRepeatLength ==
            FindTandemRepeatLength(sorted, partitionBegin + 1, partitionEnd,
                                   IndexOf(sorted[partitionBegin]), currentMatchLength \div 2)
        moved == MoveRepeats(sorted, partitionEnd - 2, partitionBegin, partitionEnd - 1,
                             IndexOf(sorted[partitionEnd - 1]), tandemRepeatLength)
        numTerminators == (moved.terminatorsEnd - partitionBegin) + 1
    IN IF tandemRepeatLength = 0
       THEN [sa |-> sorted, count |-> 0, pushed |-> <<>>]
       ELSE [sa |-> Reverse(moved.sa, partitionBegin, partitionEnd),
             count |-> (partitionEnd - partitionBegin) - numTerminators,
             pushed |-> <<[partitionBegin_ |-> partitionBegin,
                           partitionEnd_ |-> partitionEnd,
                           numTerminators_ |-> numTerminators,
                           tandemRepeatLength_ |-> tandemRepeatLength]>>]

CompareSwap_Never(net, i, j) == net

\* ----------------------------------------------------------------------
\* multikey_quicksort: the pivots and the seven way partition
\* ----------------------------------------------------------------------
\* one compare-and-swap of the pivot selection network: net.at are the five
\* candidate slots, net.value their values
CompareSwap(net, i, j) ==
    IF net.value[i] > net.value[j]
    THEN [sa |-> Swap(net.sa, net.at[i], net.at[j]),
          at |-> net.at,
          value |-> [net.value EXCEPT ![i] = net.value[j], ![j] = net.value[i]]]
    ELSE net

SelectPivots(sa, suffixArrayBegin, oneSixthOfPartitionSize, offset) ==
    LET at == [i \in 1 .. 5 |-> suffixArrayBegin + (i * oneSixthOfPartitionSize)]
        n0 == [sa |-> sa, at |-> at, value |-> [i \in 1 .. 5 |-> get_value(offset, sa[at[i]])]]
    IN CompareSwap(CompareSwap(CompareSwap(CompareSwap(CompareSwap(CompareSwap(
       CompareSwap(CompareSwap(CompareSwap(n0, 1, 2), 4, 5), 1, 3), 2, 3), 1, 4), 3, 4),
       2, 5), 2, 3), 4, 5)

\* the partition loop; st holds the suffix array, the seven cursors and the
\* three prefetched values
RECURSIVE PartitionLoop(_, _, _, _, _)
PartitionLoop(st, offset, pivot1, pivot2, pivot3) ==
    IF st.curSuffix > st.endPivot2 THEN st
    ELSE IF st.currentValue <= pivot2
    THEN LET less2 == st.currentValue < pivot2
             lessEq1 == less2 /\ st.currentValue <= pivot1
             less1 == less2 /\ st.currentValue < pivot1
             sa1 == IF less2 THEN Swap(st.sa, st.beginPivot2, st.curSuffix) ELSE st.sa
             sa2 == IF less1 THEN Swap(sa1, st.beginPivot1, st.beginPivot2) ELSE sa1
             sa3 == IF lessEq1 THEN Swap(sa2, st.endPivot1, st.beginPivot2) ELSE sa2
         IN PartitionLoop([st EXCEPT
                              !.sa = sa3,
                              !.beginPivot1 = IF less1 THEN @ + 1 ELSE @,
                              !.endPivot1 = IF lessEq1 THEN @ + 1 ELSE @,
                              !.beginPivot2 = IF less2 THEN @ + 1 ELSE @,
                              !.curSuffix = @ + 1,
                              !.currentValue = st.nextValue,
                              !.nextValue = get_value(offset, st.sa[st.curSuffix + 2])],
                          offset, pivot1, pivot2, pivot3)
    ELSE LET nextValue == get_value(offset, st.sa[st.endPivot2 - 1])
             greaterEq3 == st.currentValue >= pivot3
             greater3 == st.currentValue > pivot3
             sa1 == Swap(st.sa, st.endPivot2, st.curSuffix)
             sa2 == IF greater3 THEN Swap(sa1, st.endPivot2, st.endPivot3) ELSE sa1
             sa3 == IF greaterEq3 THEN Swap(sa2, st.endPivot2, st.beginPivot3) ELSE sa2
         IN PartitionLoop([st EXCEPT
                              !.sa = sa3,
                              !.endPivot3 = IF greater3 THEN @ - 1 ELSE @,
                              !.beginPivot3 = IF greaterEq3 THEN @ - 1 ELSE @,
                              !.endPivot2 = @ - 1,
                              !.currentValue = st.nextDValue,
                              !.nextDValue = nextValue],
                          offset, pivot1, pivot2, pivot3)

\* a call of multikey_quicksort waiting to be executed
Frame(suffixArrayBegin, suffixArrayEnd, currentMatchLength, startingPattern, endingPattern) ==
    [suffixArrayBegin |-> suffixArrayBegin, suffixArrayEnd |-> suffixArrayEnd,
     currentMatchLength |-> currentMatchLength, startingPattern |-> startingPattern,
     endingPattern |-> endingPattern]

\* multikey_quicksort from the pivot selection to the seven recursive calls:
\* the suffix array after the partition loop and the calls in program order
SevenWayPartition(sa, suffixArrayBegin, suffixArrayEnd, currentMatchLength, startingPattern, endingPattern) ==
    LET partitionSize == suffixArrayEnd - suffixArrayBegin
        \* (partitionSize * 2863311531) >> 34 in 64 bits is partitionSize / 6
        oneSixthOfPartitionSize == partitionSize \div 6
        net == SelectPivots(sa, suffixArrayBegin, oneSixthOfPartitionSize, currentMatchLength)
        pivot1 == net.value[1]
        pivot2 == net.value[3]
        pivot3 == net.value[5]
        sa1 == Swap(net.sa, suffixArrayBegin, net.at[1])
        sa2 == Swap(sa1, suffixArrayBegin + 1, net.at[3])
        sa3 == IF pivot2 # pivot3 THEN Swap(sa2, suffixArrayEnd - 1, net.at[5]) ELSE sa2
        first == IF pivot1 # pivot2 THEN suffixArrayBegin + 1 ELSE suffixArrayBegin
        last == IF pivot2 # pivot3 THEN suffixArrayEnd - 2 ELSE suffixArrayEnd - 1
        curSuffix == suffixArrayBegin + 2
        st == PartitionLoop(
                  [sa |-> sa3, curSuffix |-> curSuffix,
                   beginPivot1 |-> suffixArrayBegin, endPivot1 |-> first,
                   beginPivot2 |-> first, endPivot2 |-> last,
                   beginPivot3 |-> last, endPivot3 |-> suffixArrayEnd - 1,
                   currentValue |-> get_value(currentMatchLength, sa3[curSuffix]),
                   nextValue |-> get_value(currentMatchLength, sa3[curSuffix + 1]),
                   nextDValue |-> get_value(currentMatchLength, sa3[last])],
                  currentMatchLength, pivot1, pivot2, pivot3)
        deeper == currentMatchLength + sizeof_suffix_value
        same(b, e) == Frame(b, e, currentMatchLength, startingPattern, endingPattern)
        equal(b, e, pivot) == Frame(b, e, deeper, startingPattern, <<endingPattern[2], pivot>>)
    IN [sa |-> st.sa,
        pivots |-> <<pivot1, pivot2, pivot3>>,
        bounds |-> <<suffixArrayBegin, st.beginPivot1, st.endPivot1, st.beginPivot2,
                     st.endPivot2 + 1, st.beginPivot3 + 1, st.endPivot3 + 1, suffixArrayEnd>>,
        calls |-> <<same(suffixArrayBegin, st.beginPivot1),
                    equal(st.beginPivot1, st.endPivot1, pivot1),
                    same(st.endPivot1, st.beginPivot2),
                    equal(st.beginPivot2, st.endPivot2 + 1, pivot2),
                    same(st.endPivot2 + 1, st.beginPivot3 + 1),
                    equal(st.beginPivot3 + 1, st.endPivot3 + 1, pivot3),
                    same(st.endPivot3 + 1, suffixArrayEnd)>>]

\* ----------------------------------------------------------------------
\* multikey_insertion_sort
\* ----------------------------------------------------------------------
\* the inner while loop: entries with a larger value move one slot up
ShiftLarger_Stays(st, j, currentValue, partitionBegin) ==
    [sa |-> st.sa, value |-> st.value, j |-> j]

RECURSIVE ShiftLarger(_, _, _, _)
ShiftLarger(st, j, currentValue, partitionBegin) ==
    IF j > 0 /\ st.value[j - 1] > currentValue
    THEN ShiftLarger([sa |-> [st.sa EXCEPT ![partitionBegin + j] = st.sa[partitionBegin + j - 1]],
                      value |-> [st.value EXCEPT ![j] = st.value[j - 1]],
                      j |-> j - 1],
                     j - 1, currentValue, partitionBegin)
    ELSE [sa |-> st.sa, value |-> st.value, j |-> j]

\* the for loop over i = 1 .. size - 1
RECURSIVE InsertionLoop(_, _, _, _, _)
InsertionLoop(st, i, size, partitionBegin, offset) ==
    IF i >= size THEN st
    ELSE LET currentIndex == st.sa[partitionBegin + i]
             currentValue == get_value(offset, currentIndex)
             shifted == ShiftLarger([sa |-> st.sa, value |-> st.value, j |-> i],
                                    i, currentValue, partitionBegin)
         IN CASE shifted.j \in 0 .. i ->
                    InsertionLoop([sa |-> [shifted.sa EXCEPT ![partitionBegin + shifted.j] = currentIndex],
                                   value |-> [shifted.value EXCEPT ![shifted.j] = currentValue]],
                                  i + 1, size, partitionBegin, offset)

\* the inner while loop of the grouping: the first i below start whose value differs
RECURSIVE GroupStart(_, _, _)
GroupStart(value, i, startValue) ==
    IF i >= 0 /\ value[i] = startValue THEN GroupStart(value, i - 1, startValue) ELSE i

\* the grouping loop: one stack entry per run of equal values, the run of the
\* largest value first; st holds the stack and the starting pattern
RECURSIVE PushGroups(_, _, _, _, _, _)
PushGroups(st, i, value, nextMatchLength, endingPattern0, first) ==
    IF i < 0 THEN st
    ELSE LET startValue == value[i]
             below == GroupStart(value, i - 1, startValue)
             potentialTandemRepeats ==
                 has_potential_tandem_repeats(st.startingPattern, endingPattern0, startValue)
             startingPattern == IF nextMatchLength = 2 + sizeof_suffix_value
                                THEN get_value(0, first) ELSE st.startingPattern
         IN PushGroups([stack |-> Append(st.stack,
                                         [currentMatchLength_ |-> nextMatchLength,
                                          size_ |-> i - below,
                                          startingPattern_ |-> startingPattern,
                                          endingPattern_ |-> startValue,
                                          hasPotentialTandemRepeats_ |-> potentialTandemRepeats]),
                        startingPattern |-> startingPattern],
                       below, value, nextMatchLength, endingPattern0, first)

\* one iteration of the while loop of multikey_insertion_sort: top is the
\* entry popped, stack the entries under it
InsertionIteration(sa, partitionBegin, top, stack) ==
    IF top.size_ <= 2
    THEN [sa |-> IF top.size_ = 2 /\ compare_suffixes(top.currentMatchLength_,
                                                      sa[partitionBegin], sa[partitionBegin + 1])
                 THEN Swap(sa, partitionBegin, partitionBegin + 1) ELSE sa,
          partitionBegin |-> partitionBegin + top.size_,
          stack |-> stack,
          pushed |-> <<>>]
    ELSE LET tandem ==
                 IF top.currentMatchLength_ >= min_match_length_for_tandem_repeats
                    /\ top.hasPotentialTandemRepeats_
                 THEN partition_tandem_repeats(sa, partitionBegin, partitionBegin + top.size_,
                                               top.currentMatchLength_)
                 ELSE [sa |-> sa, count |-> 0, pushed |-> <<>>]
             size == top.size_ - tandem.count
             begin == partitionBegin + tandem.count
             sorted == InsertionLoop(
                           [sa |-> tandem.sa,
                            value |-> [i \in 0 .. (insertion_sort_threshold - 1) |->
                                          IF i = 0
                                          THEN get_value(top.currentMatchLength_, tandem.sa[begin])
                                          ELSE 0]],
                           1, size, begin, top.currentMatchLength_)
             groups == PushGroups([stack |-> stack, startingPattern |-> top.startingPattern_],
                                  size - 1, sorted.value,
                                  top.currentMatchLength_ + sizeof_suffix_value,
                                  top.endingPattern_, sorted.sa[begin])
         IN IF size = 0
            THEN [sa |-> tandem.sa, partitionBegin |-> begin, stack |-> stack,
                  pushed |-> tandem.pushed]
            ELSE [sa |-> sorted.sa, partitionBegin |-> begin, stack |-> groups.stack,
                  pushed |-> tandem.pushed]

\* ----------------------------------------------------------------------
\* complete_tandem_repeat
\* ----------------------------------------------------------------------
is_tandem_repeat_length == preceding_suffix_is_type_a_flag
isa_index_mask == sa_index_mask
\* the overlay a quarter into the suffix array instead of half
inverseSuffixArrayBegin_AtQuarter == (inputSize_ + 1) \div 4

\* inverseSuffixArrayBegin_ as a slot of the suffix array
inverseSuffixArrayBegin_ == (inputSize_ + 1) \div 2

\* isaValue marks a tandem repeat of the given length
MarksRepeat(isaValue, tandemRepeatLength) ==
    HasFlag(isaValue) /\ IndexOf(isaValue) = tandemRepeatLength

\* the entry written for a suffix induced from its terminator
InducedEntry(index) ==
    IF index > 0 /\ Byte(index - 1) <= Byte(index) THEN index ELSE WithFlag(index)

CountTypeA_None(sa, terminatorsBegin, tandemRepeatLength, a, b, numTypeA) == 0

\* the binary search for the number of terminators that sort before the repeats
RECURSIVE CountTypeA(_, _, _, _, _, _)
CountTypeA(sa, terminatorsBegin, tandemRepeatLength, a, b, numTypeA) ==
    IF a > b THEN numTypeA
    ELSE LET m == (a + b) \div 2
         IN IF ~compare_suffixes(0, sa[terminatorsBegin + m],
                                 sa[terminatorsBegin + m] + tandemRepeatLength)
            THEN CountTypeA(sa, terminatorsBegin, tandemRepeatLength, a, m - 1, m)
            ELSE CountTypeA(sa, terminatorsBegin, tandemRepeatLength, m + 1, b, m + 1)

InduceTypeA_Skipped(sa, current, next, tandemRepeatLength) == sa

\* the type A loops: the entries from current up to next are read in
\* increasing order, each may append the suffix one period in front of it
RECURSIVE InduceTypeA(_, _, _, _)
InduceTypeA(sa, current, next, tandemRepeatLength) ==
    IF current = next THEN sa
    ELSE LET index == IndexOf(sa[current])
             found == /\ index >= tandemRepeatLength
                      /\ MarksRepeat(sa[inverseSuffixArrayBegin_
                                        + ((index - tandemRepeatLength) \div 2)],
                                     tandemRepeatLength)
         IN IF found
            THEN InduceTypeA([sa EXCEPT ![next] = InducedEntry(index - tandemRepeatLength)],
                             current + 1, next + 1, tandemRepeatLength)
            ELSE InduceTypeA(sa, current + 1, next, tandemRepeatLength)

\* the type B loops: the same from the right end of the partition
RECURSIVE InduceTypeB(_, _, _, _)
InduceTypeB(sa, current, next, tandemRepeatLength) ==
    IF current = next THEN sa
    ELSE LET index == IndexOf(sa[current])
             found == /\ index >= tandemRepeatLength
                      /\ MarksRepeat(sa[inverseSuffixArrayBegin_
                                        + ((index - tandemRepeatLength) \div 2)],
                                     tandemRepeatLength)
         IN IF found
            THEN InduceTypeB([sa EXCEPT ![next] = InducedEntry(index - tandemRepeatLength)],
                             current - 1, next - 1, tandemRepeatLength)
            ELSE InduceTypeB(sa, current - 1, next, tandemRepeatLength)

complete_tandem_repeat(sa, partitionBegin, partitionEnd, numTerminators, tandemRepeatLength) ==
    LET terminatorsBegin == partitionEnd - numTerminators
        marked == [i \in DOMAIN sa |->
                      IF \E cur \in partitionBegin .. (terminatorsBegin - 1) :
                            i = inverseSuffixArrayBegin_ + (IndexOf(sa[cur]) \div 2)
                      THEN WithFlag(tandemRepeatLength) ELSE sa[i]]
        found == CountTypeA(marked, terminatorsBegin, tandemRepeatLength,
                            0, numTerminators - 1, 0)
        numTypeA == IF found > numTerminators THEN numTerminators ELSE found
        numTypeB == numTerminators - numTypeA
        copied == [i \in DOMAIN sa |->
                      IF i >= partitionBegin /\ i < partitionBegin + numTypeA
                      THEN marked[terminatorsBegin + (i - partitionBegin)] ELSE marked[i]]
        typeA == InduceTypeA(copied, partitionBegin, partitionBegin + numTypeA,
                             tandemRepeatLength)
    IN InduceTypeB(typeA, partitionEnd - 1, (partitionEnd - 1) - numTypeB, tandemRepeatLength)

stage1vars == <<threadBCount, threadACount, bStarCount, aCount, bCount, aCount_, bCount_,
                total, bStarTotal, totalBStarCount, bStarOffset, partitions, partitionCount,
                frontBucketOffset_, backBucketOffset_>>
callvars == <<op, numThreads, littleEndian, original>>
sortvars == <<callStack, insertionStack, insertionBegin, tandemRepeatStack>>
passvars == <<currentSuffix, symbol, endSuffix>>
bwtvars == <<sentinel, sentinelIndex>>
mtvars == <<cache, sCount, dest, taskBegin, taskEnd>>
ibwtvars == <<roundTrip, ibwtIndex, symbolRange, ibwtPartitionInfo, decodedInfo,
              availableDecodeSpace, threadPartitionBegin, threadPartitionEnd>>

\* ----------------------------------------------------------------------
\* The calls
\* ----------------------------------------------------------------------
Call(o, s, p, i) == [op |-> o, input |-> s, numThreads |-> p, sentinelIndex |-> i]
MultiThreadedInputs == {s \in ExhaustiveInputs : Len(s) >= 1 /\ Len(s) <= MaxLenMT}
\* abcabc: an input that gives both threads entries of one symbol to scatter
\* in one round of the right to left pass; 2,0,1,2,0,2: an input with two B*
\* partitions, for two threads to sort at the same time, and a B suffix to
\* induce, whose suffix 0 is of type A
MultiThreadedNamedInputs == {RepABC(2), <<2, 0, 1, 2, 0, 2>>}
\* the forward transform of (ab)^LongK, b^LongK a^LongK with the sentinel in
\* row LongK: an index of more than maxPartitionsPerThread entries, so that
\* with one thread a partition is given more than one entry
LongK == 130
LongTransform == [i \in 1 .. (2 * LongK) |-> IF i <= LongK THEN Letter.b ELSE Letter.a]
\* the buffers reverse_burrows_wheeler_transform is called on directly
ReverseInputs == {s \in ExhaustiveInputs : Len(s) <= MaxLenMT}
\* the sentinel indexes of those calls: the two nearest values outside
\* [0, N] and, for the empty buffer, the sentinel index of the empty string
ReverseSentinels(s) == IF Len(s) = 0 THEN {-1, 0, 1} ELSE {-1, Len(s) + 1}
Calls ==
    {Call("make_suffix_array", s, 1, 0) : s \in ExhaustiveInputs \cup NamedInputs}
    \cup {Call("make_suffix_array", s, p, 0) :
             s \in MultiThreadedInputs \cup MultiThreadedNamedInputs, p \in 2 .. MaxThreads}
    \cup {Call("forward_burrows_wheeler_transform", s, 1, 0) :
             s \in ExhaustiveInputs \cup {Banana}}
    \cup UNION {{Call("reverse_burrows_wheeler_transform", s, p, i) :
                    p \in 1 .. MaxThreads, i \in ReverseSentinels(s)} : s \in ReverseInputs}
    \cup {Call("reverse_burrows_wheeler_transform", LongTransform, p, LongK) :
             p \in 1 .. MaxThreads}

Init ==
    /\ \E call \in Calls, le \in BOOLEAN :
          /\ op = call.op
          /\ input = call.input
          /\ original = call.input
          /\ numThreads = call.numThreads
          /\ sentinelIndex = call.sentinelIndex
          /\ littleEndian = le
          /\ SA = [i \in 0 .. Len(call.input) |-> 0]
          /\ threadBCount = [t \in Threads(call.numThreads) |-> ZeroKeys]
          /\ threadACount = [t \in Threads(call.numThreads) |-> ZeroKeys]
          /\ bStarCount = [t \in Threads(call.numThreads) |-> ZeroKeys]
          /\ bStarOffset = [t \in Threads(call.numThreads) |-> ZeroKeys]
          /\ callStack = [t \in Threads(call.numThreads) |-> <<>>]
          /\ insertionStack = [t \in Threads(call.numThreads) |-> <<>>]
          /\ insertionBegin = [t \in Threads(call.numThreads) |-> 0]
          /\ tandemRepeatStack = [t \in Threads(call.numThreads) |-> <<>>]
          /\ cache = [t \in Threads(call.numThreads) |-> <<>>]
          /\ sCount = [t \in Threads(call.numThreads) |-> ZeroBytes]
          /\ dest = [t \in Threads(call.numThreads) |-> ZeroBytes]
          /\ taskBegin = [t \in Threads(call.numThreads) |-> 0]
          /\ taskEnd = [t \in Threads(call.numThreads) |-> 0]
    /\ pc = "start"
    /\ pending = {}
    /\ ub = ""
    /\ roundTrip = FALSE
    /\ ibwtIndex = <<>>
    /\ symbolRange = <<>>
    /\ ibwtPartitionInfo = <<>>
    /\ decodedInfo = <<>>
    /\ availableDecodeSpace = <<>>
    /\ threadPartitionBegin = <<>>
    /\ threadPartitionEnd = <<>>
    /\ currentSuffix = 0
    /\ symbol = 0
    /\ endSuffix = 0
    /\ sentinel = 0
    /\ copyEnd_ = [i \in 0 .. ((2 * sizeof_suffix_value) - 1) |-> 0]
    /\ aCount = ZeroKeys
    /\ bCount = ZeroKeys
    /\ aCount_ = ZeroBytes
    /\ bCount_ = ZeroBytes
    /\ total = 0
    /\ bStarTotal = 0
    /\ totalBStarCount = ZeroKeys
    /\ partitions = <<>>
    /\ partitionCount = 0
    /\ frontBucketOffset_ = ZeroBytes
    /\ backBucketOffset_ = ZeroKeys

\* make_suffix_array and forward_burrows_wheeler_transform up to the call of
\* first_stage_its, and first_stage_its up to the posting of the
\* count_suffixes tasks
SetUp ==
    /\ pc = "start"
    /\ op \in {"make_suffix_array", "forward_burrows_wheeler_transform"}
    /\ copyEnd_' = [i \in 0 .. ((2 * sizeof_suffix_value) - 1) |->
                      LET source == (inputSize_ - sizeof_suffix_value) + i
                      IN IF i < sizeof_suffix_value /\ source >= 0 THEN Byte(source) ELSE 0]
    /\ SA' = [i \in SlotRange |-> 0]
    /\ pending' = Threads(numThreads)
    /\ pc' = "count"
    /\ UNCHANGED <<callvars, input, ub, stage1vars, sortvars, passvars, bwtvars, mtvars, ibwtvars>>

\* the count_suffixes task of one thread
CountTask(t) ==
    /\ pc = "count"
    /\ t \in pending
    /\ LET counted == count_suffixes(SliceEnd(t) - 1, SliceBegin(t),
                                     [b |-> threadBCount[t], a |-> threadACount[t],
                                      bStar |-> bStarCount[t]])
       IN /\ threadBCount' = [threadBCount EXCEPT ![t] = counted.b]
          /\ threadACount' = [threadACount EXCEPT ![t] = counted.a]
          /\ bStarCount' = [bStarCount EXCEPT ![t] = counted.bStar]
    /\ pending' = pending \ {t}
    /\ UNCHANGED <<callvars, input, pc, ub, copyEnd_, SA, aCount, bCount, aCount_, bCount_,
                   total, bStarTotal, totalBStarCount, bStarOffset, partitions,
                   partitionCount, frontBucketOffset_, backBucketOffset_, sortvars, passvars, bwtvars, mtvars, ibwtvars>>

\* first_stage_its after the counting barrier: the last suffix is counted as
\* type A and the tables of the threads are added up.  With an empty input
\* inputEnd_[-1] is a byte in front of the buffer: any value can be read
ReduceCounts ==
    /\ pc = "count"
    /\ pending = {}
    /\ \E last \in (IF inputSize_ > 0 THEN {Byte(inputSize_ - 1)} ELSE Alphabet) :
          /\ aCount' = [k \in Keys |->
                           ThreadSum(threadACount, k) + (IF k = last * 256 THEN 1 ELSE 0)]
          /\ aCount_' = [c \in Alphabet |->
                           SumOver([k \in Keys |-> ThreadSum(threadACount, k)],
                                   {k \in Keys : HighByte(k) = c})
                           + (IF c = last THEN 1 ELSE 0)]
    /\ bCount' = [k \in Keys |-> ThreadSum(threadBCount, k)]
    /\ bCount_' = [c \in Alphabet |->
                      SumOver([k \in Keys |-> ThreadSum(threadBCount, k)
                                              + ThreadSum(bStarCount, k)],
                              {k \in Keys : HighByte(k) = c})]
    /\ ub' = IF inputSize_ > 0 THEN ub ELSE "read of inputEnd_[-1] outside the input"
    /\ threadBCount' = [t \in Threads(numThreads) |-> ZeroKeys]
    /\ threadACount' = [t \in Threads(numThreads) |-> ZeroKeys]
    /\ pc' = "offsets"
    /\ UNCHANGED <<callvars, input, pending, copyEnd_, SA, bStarCount, total, bStarTotal,
                   totalBStarCount, bStarOffset, partitions, partitionCount,
                   frontBucketOffset_, backBucketOffset_, sortvars, passvars, bwtvars, mtvars, ibwtvars>>

BStarOfEarlierThreads_None(t, k) == 0

\* what bStarTotal has grown by within key k when the offset of thread t is
\* taken: the B* counts of the threads before it
BStarOfEarlierThreads(t, k) ==
    SumOver([u \in Threads(numThreads) |-> bStarCount[u][k]],
            {u \in Threads(numThreads) : u < t})

\* first_stage_its: the bucket offsets, the B* offsets of every thread and
\* the list of B* partitions, followed by the posting of the radix sort tasks
ComputeOffsets ==
    /\ pc = "offsets"
    /\ LET tbs == [k \in Keys |-> ThreadSum(bStarCount, k)]
           bc == [k \in Keys |-> bCount[k] + tbs[k]]
           size == [k \in Keys |-> bc[k] + aCount[k]]
           sizeBefore == [k \in Keys |-> SumOver(size, {j \in Keys : j < k})]
           bStarBefore == [k \in Keys |-> SumOver(tbs, {j \in Keys : j < k})]
           ks == KeySeq({k \in Keys : tbs[k] > 0})
       IN /\ totalBStarCount' = tbs
          /\ bCount' = bc
          /\ bStarOffset' = [t \in Threads(numThreads) |-> [k \in Keys |->
                                bStarBefore[k] + BStarOfEarlierThreads(t, k)]]
          /\ bStarTotal' = SumOver(tbs, Keys)
          /\ total' = 1 + SumOver(size, Keys)
          /\ frontBucketOffset_' = [c \in Alphabet |-> 1 + sizeBefore[c * 256]]
          /\ backBucketOffset_' = [k \in Keys |->
                                      LET s == (LowByte(k) * 256) + HighByte(k)
                                      IN 1 + sizeBefore[s] + size[s]]
          /\ partitions' = [i \in 1 .. Len(ks) |-> <<bStarBefore[ks[i]], tbs[ks[i]], ks[i]>>]
    /\ pending' = Threads(numThreads)
    /\ pc' = "radix"
    /\ UNCHANGED <<callvars, input, ub, copyEnd_, SA, threadBCount, threadACount, bStarCount,
                   aCount, aCount_, bCount_, partitionCount, sortvars, passvars, bwtvars, mtvars, ibwtvars>>

\* the initial_two_byte_radix_sort task of one thread
RadixTask(t) ==
    /\ pc = "radix"
    /\ t \in pending
    /\ LET done == initial_two_byte_radix_sort(SliceEnd(t) - 1, SliceBegin(t),
                                               [sa |-> SA, offset |-> bStarOffset[t]])
       IN /\ SA' = done.sa
          /\ bStarOffset' = [bStarOffset EXCEPT ![t] = done.offset]
    /\ pending' = pending \ {t}
    /\ UNCHANGED <<callvars, input, pc, ub, copyEnd_, threadBCount, threadACount, bStarCount,
                   aCount, bCount, aCount_, bCount_, total, bStarTotal, totalBStarCount,
                   partitions, partitionCount, frontBucketOffset_, backBucketOffset_, sortvars, passvars, bwtvars, mtvars, ibwtvars>>

\* first_stage_its after the radix sort barrier: the partitions are sorted by
\* size and every thread is given the partition sorting task
StartQuicksort ==
    /\ pc = "radix"
    /\ pending = {}
    /\ partitions' \in SortedBySize(partitions)
    /\ partitionCount' = Len(partitions)
    /\ pending' = Threads(numThreads)
    /\ pc' = "quicksort"
    /\ UNCHANGED <<callvars, input, ub, copyEnd_, SA, threadBCount, threadACount, bStarCount,
                   aCount, bCount, aCount_, bCount_, total, bStarTotal, totalBStarCount,
                   bStarOffset, frontBucketOffset_, backBucketOffset_, sortvars, passvars, bwtvars, mtvars, ibwtvars>>

Idle(t) == callStack[t] = <<>> /\ insertionStack[t] = <<>>

TakePartition_NotCounted(t) ==
    /\ pc = "quicksort"
    /\ t \in pending
    /\ Idle(t)
    /\ partitionCount' = IF partitionCount - 1 < 0 THEN partitionCount - 1 ELSE partitionCount
    /\ IF partitionCount - 1 < 0
       THEN /\ pending' = pending \ {t}
            /\ UNCHANGED callStack
       ELSE /\ LET partition == partitions[partitionCount]
               IN callStack' = [callStack EXCEPT ![t] =
                     <<Frame(partition[1], partition[1] + partition[2], 2, 0,
                             <<0, partition[3]>>)>>]
            /\ UNCHANGED pending
    /\ UNCHANGED <<callvars, input, pc, ub, copyEnd_, SA, threadBCount, threadACount,
                   bStarCount, aCount, bCount, aCount_, bCount_, total, bStarTotal,
                   totalBStarCount, bStarOffset, partitions, frontBucketOffset_,
                   backBucketOffset_, insertionStack, insertionBegin, tandemRepeatStack, passvars, bwtvars, mtvars, ibwtvars>>

\* the sorting task at the top of its loop: partitionIndex = --partitionCount
TakePartition(t) ==
    /\ pc = "quicksort"
    /\ t \in pending
    /\ Idle(t)
    /\ partitionCount' = partitionCount - 1
    /\ IF partitionCount - 1 < 0
       THEN /\ pending' = pending \ {t}
            /\ UNCHANGED callStack
       ELSE /\ LET partition == partitions[partitionCount]
               IN callStack' = [callStack EXCEPT ![t] =
                     <<Frame(partition[1], partition[1] + partition[2], 2, 0,
                             <<0, partition[3]>>)>>]
            /\ UNCHANGED pending
    /\ UNCHANGED <<callvars, input, pc, ub, copyEnd_, SA, threadBCount, threadACount,
                   bStarCount, aCount, bCount, aCount_, bCount_, total, bStarTotal,
                   totalBStarCount, bStarOffset, partitions, frontBucketOffset_,
                   backBucketOffset_, insertionStack, insertionBegin, tandemRepeatStack, passvars, bwtvars, mtvars, ibwtvars>>

\* one call of multikey_quicksort, up to its recursive calls or up to the
\* first iteration of the insertion sort it delegates to
QuicksortCall(t) ==
    /\ pc = "quicksort"
    /\ t \in pending
    /\ insertionStack[t] = <<>>
    /\ callStack[t] # <<>>
    /\ LET call == Head(callStack[t])
           rest == Tail(callStack[t])
           check == call.currentMatchLength >= min_match_length_for_tandem_repeats
           startingPattern ==
               IF call.currentMatchLength = min_match_length_for_tandem_repeats
               THEN get_value(0, SA[call.suffixArrayBegin]) ELSE call.startingPattern
           tandem ==
               IF check /\ has_potential_tandem_repeats(startingPattern, call.endingPattern[1],
                                                        call.endingPattern[2])
               THEN partition_tandem_repeats(SA, call.suffixArrayBegin, call.suffixArrayEnd,
                                             call.currentMatchLength)
               ELSE [sa |-> SA, count |-> 0, pushed |-> <<>>]
           begin == call.suffixArrayBegin + tandem.count
           partitionSize == call.suffixArrayEnd - begin
           seven == SevenWayPartition(tandem.sa, begin, call.suffixArrayEnd,
                                      call.currentMatchLength, startingPattern,
                                      call.endingPattern)
       IN IF call.suffixArrayEnd - call.suffixArrayBegin < 2
          THEN /\ callStack' = [callStack EXCEPT ![t] = rest]
               /\ UNCHANGED <<SA, insertionStack, insertionBegin, tandemRepeatStack>>
          ELSE /\ tandemRepeatStack' = [tandemRepeatStack EXCEPT ![t] = @ \o tandem.pushed]
               /\ IF partitionSize < insertion_sort_threshold
                  THEN /\ SA' = tandem.sa
                       /\ callStack' = [callStack EXCEPT ![t] = rest]
                       /\ insertionBegin' = [insertionBegin EXCEPT ![t] = begin]
                       /\ insertionStack' = [insertionStack EXCEPT ![t] =
                             IF partitionSize < 2 THEN <<>>
                             ELSE <<[currentMatchLength_ |-> call.currentMatchLength,
                                     size_ |-> partitionSize,
                                     startingPattern_ |-> startingPattern,
                                     endingPattern_ |-> call.endingPattern[1],
                                     hasPotentialTandemRepeats_ |-> FALSE]>>]
                  ELSE /\ SA' = seven.sa
                       /\ callStack' = [callStack EXCEPT ![t] = seven.calls \o rest]
                       /\ UNCHANGED <<insertionStack, insertionBegin>>
    /\ UNCHANGED <<callvars, input, pc, pending, ub, copyEnd_, stage1vars, passvars, bwtvars, mtvars, ibwtvars>>

\* one iteration of the while loop of multikey_insertion_sort
InsertionStep(t) ==
    /\ pc = "quicksort"
    /\ t \in pending
    /\ insertionStack[t] # <<>>
    /\ LET stack == insertionStack[t]
           done == InsertionIteration(SA, insertionBegin[t], stack[Len(stack)],
                                      SubSeq(stack, 1, Len(stack) - 1))
       IN /\ SA' = done.sa
          /\ insertionBegin' = [insertionBegin EXCEPT ![t] = done.partitionBegin]
          /\ insertionStack' = [insertionStack EXCEPT ![t] = done.stack]
          /\ tandemRepeatStack' = [tandemRepeatStack EXCEPT ![t] = @ \o done.pushed]
    /\ UNCHANGED <<callvars, input, pc, pending, ub, copyEnd_, stage1vars, callStack, passvars, bwtvars, mtvars, ibwtvars>>

\* first_stage_its after the sorting barrier: every thread is given the task
\* that completes its tandem repeats
StartTandemRepeats ==
    /\ pc = "quicksort"
    /\ pending = {}
    /\ pending' = Threads(numThreads)
    /\ pc' = "tandem"
    /\ UNCHANGED <<callvars, input, ub, copyEnd_, SA, stage1vars, sortvars, passvars, bwtvars, mtvars, ibwtvars>>

\* one iteration of the loop of complete_tandem_repeats; the task ends when
\* the stack of the thread is empty
CompleteTandemRepeat(t) ==
    /\ pc = "tandem"
    /\ t \in pending
    /\ LET stack == tandemRepeatStack[t]
           tandemRepeat == stack[Len(stack)]
       IN IF stack = <<>>
          THEN /\ pending' = pending \ {t}
               /\ UNCHANGED <<SA, tandemRepeatStack>>
          ELSE /\ SA' = complete_tandem_repeat(SA, tandemRepeat.partitionBegin_,
                                               tandemRepeat.partitionEnd_,
                                               tandemRepeat.numTerminators_,
                                               tandemRepeat.tandemRepeatLength_)
               /\ tandemRepeatStack' = [tandemRepeatStack EXCEPT ![t] =
                                           SubSeq(stack, 1, Len(stack) - 1)]
               /\ UNCHANGED pending
    /\ UNCHANGED <<callvars, input, pc, ub, copyEnd_, stage1vars, callStack,
                   insertionStack, insertionBegin, passvars, bwtvars, mtvars, ibwtvars>>

\* the suffix array the spread loop leaves.  The loop walks the keys from
\* 0xffff down with destination starting at total and source at bStarTotal,
\* so below a key destination is 1 plus the sizes of the smaller keys and
\* source the number of B* suffixes of the smaller keys.  In the bucket of
\* every key the type A slots are set to the flag, then come the sorted B*
\* suffixes of the key and the remaining type B slots hold
\* suffix_is_unsorted_b_type
Spread_BStarLast(sa) ==
    LET size == [k \in Keys |-> bCount[k] + aCount[k]]
        destination == [k \in Keys |-> 1 + SumOver(size, {j \in Keys : j < k})]
        source == [k \in Keys |-> SumOver(totalBStarCount, {j \in Keys : j < k})]
        used == {k \in Keys : size[k] > 0}
    IN [i \in DOMAIN sa |->
           IF \E k \in used : i >= destination[k] /\ i < destination[k] + size[k]
           THEN LET k == CHOOSE j \in used : i >= destination[j] /\ i < destination[j] + size[j]
                    d == (i - destination[k]) - aCount[k]
                    e == d - (bCount[k] - totalBStarCount[k])
                IN IF d < 0 THEN preceding_suffix_is_type_a_flag
                   ELSE IF e >= 0 THEN sa[source[k] + e]
                   ELSE suffix_is_unsorted_b_type
           ELSE sa[i]]

Spread(sa) ==
    LET size == [k \in Keys |-> bCount[k] + aCount[k]]
        destination == [k \in Keys |-> 1 + SumOver(size, {j \in Keys : j < k})]
        source == [k \in Keys |-> SumOver(totalBStarCount, {j \in Keys : j < k})]
        used == {k \in Keys : size[k] > 0}
    IN [i \in DOMAIN sa |->
           IF \E k \in used : i >= destination[k] /\ i < destination[k] + size[k]
           THEN LET k == CHOOSE j \in used : i >= destination[j] /\ i < destination[j] + size[j]
                    d == (i - destination[k]) - aCount[k]
                IN IF d < 0 THEN preceding_suffix_is_type_a_flag
                   ELSE IF d < totalBStarCount[k] THEN sa[source[k] + d]
                   ELSE suffix_is_unsorted_b_type
           ELSE sa[i]]

\* first_stage_its after the tandem repeat barrier: the B* suffixes are spread
\* to their buckets and slot 0 receives the sentinel.  The loop writes the
\* slots 1 .. total - 1; a slot behind the array is memory of another object
SpreadBStar ==
    /\ pc = "tandem"
    /\ pending = {}
    /\ SA' = [Spread(SA) EXCEPT ![0] = WithFlag(inputSize_)]
    /\ IF total - 1 > inputSize_
       THEN /\ ub' = "write behind the suffix array"
            /\ pc' \in {"spread", "fault"}
       ELSE /\ pc' = "spread"
            /\ UNCHANGED ub
    /\ UNCHANGED <<callvars, input, pending, copyEnd_, stage1vars, sortvars, passvars, bwtvars, mtvars, ibwtvars>>

\* ----------------------------------------------------------------------
\* second_stage_its, single threaded
\* ----------------------------------------------------------------------
\* the largest modelled byte value below i (-1 if there is none)
PreviousSymbol(i) ==
    IF \E c \in Alphabet : c < i
    THEN CHOOSE c \in Alphabet : c < i /\ \A d \in Alphabet : d < i => d <= c
    ELSE -1
LastSymbol == PreviousSymbol(256)

\* the for loop of the right to left pass from the top of iteration i with
\* currentSuffix = cur up to the next slot the while loop reads
RECURSIVE EnterBucket(_, _)
EnterBucket(i, cur) ==
    IF i < 0 THEN [symbol |-> -1, currentSuffix |-> cur, endSuffix |-> cur]
    ELSE IF cur > cur - bCount_[i]
         THEN [symbol |-> i, currentSuffix |-> cur, endSuffix |-> cur - bCount_[i]]
         ELSE EnterBucket(PreviousSymbol(i), cur - aCount_[i])

AfterSlot_NoTypeA(i, cur, end) ==
    IF cur > end THEN [symbol |-> i, currentSuffix |-> cur, endSuffix |-> end]
    ELSE EnterBucket(PreviousSymbol(i), cur)

\* the same after a slot of bucket i was handled and currentSuffix decremented
AfterSlot(i, cur, end) ==
    IF cur > end THEN [symbol |-> i, currentSuffix |-> cur, endSuffix |-> end]
    ELSE EnterBucket(PreviousSymbol(i), cur - aCount_[i])

\* the entry the right to left pass writes for the suffix in front of index
PrecedingEntryB_Strict(precedingSuffixIndex) ==
    IF precedingSuffixIndex > 0
       /\ Byte(precedingSuffixIndex - 1) < Byte(precedingSuffixIndex)
    THEN precedingSuffixIndex ELSE WithFlag(precedingSuffixIndex)

PrecedingEntryB(precedingSuffixIndex) ==
    IF precedingSuffixIndex > 0
       /\ Byte(precedingSuffixIndex - 1) <= Byte(precedingSuffixIndex)
    THEN precedingSuffixIndex ELSE WithFlag(precedingSuffixIndex)

PrecedingEntryA_Strict(precedingSuffixIndex) ==
    IF precedingSuffixIndex > 0
       /\ Byte(precedingSuffixIndex - 1) > Byte(precedingSuffixIndex)
    THEN WithFlag(precedingSuffixIndex) ELSE precedingSuffixIndex

\* PrecedingEntryA without the test of the byte in front: the flag is never set
PrecedingEntryA_NeverFlagged(precedingSuffixIndex) == precedingSuffixIndex

\* the entry the left to right pass writes for the suffix in front of index
PrecedingEntryA(precedingSuffixIndex) ==
    IF precedingSuffixIndex > 0
       /\ Byte(precedingSuffixIndex - 1) >= Byte(precedingSuffixIndex)
    THEN WithFlag(precedingSuffixIndex) ELSE precedingSuffixIndex

\* second_stage_its with numWorkerThreads_ = 0, up to the first slot read
StartRightToLeft ==
    /\ pc = "spread"
    /\ numThreads = 1
    /\ LET at == EnterBucket(LastSymbol, inputSize_)
       IN /\ currentSuffix' = at.currentSuffix
          /\ symbol' = at.symbol
          /\ endSuffix' = at.endSuffix
    /\ pc' = IF op = "make_suffix_array" THEN "r2l" ELSE "bwt_r2l"
    /\ UNCHANGED <<callvars, input, pending, ub, copyEnd_, SA, stage1vars, sortvars, bwtvars, mtvars, ibwtvars>>

\* one iteration of the while loop of
\* second_stage_its_right_to_left_pass_single_threaded
RightToLeftStep ==
    /\ pc = "r2l"
    /\ symbol >= 0
    /\ LET precedingSuffixIndex == IndexOf(SA[currentSuffix]) - 1
           precedingSymbol == Byte(precedingSuffixIndex)
           bucket == (symbol * 256) + precedingSymbol
           at == AfterSlot(symbol, currentSuffix - 1, endSuffix)
       IN /\ IF ~HasFlag(SA[currentSuffix])
             THEN /\ backBucketOffset_' = [backBucketOffset_ EXCEPT ![bucket] = @ - 1]
                  /\ SA' = [SA EXCEPT ![backBucketOffset_[bucket] - 1] =
                                PrecedingEntryB(precedingSuffixIndex)]
             ELSE UNCHANGED <<SA, backBucketOffset_>>
          /\ currentSuffix' = at.currentSuffix
          /\ symbol' = at.symbol
          /\ endSuffix' = at.endSuffix
    /\ UNCHANGED <<callvars, input, pc, pending, ub, copyEnd_, threadBCount, threadACount,
                   bStarCount, aCount, bCount, aCount_, bCount_, total, bStarTotal,
                   totalBStarCount, bStarOffset, partitions, partitionCount,
                   frontBucketOffset_, sortvars, bwtvars, mtvars, ibwtvars>>

\* the end of the right to left pass and the start of the left to right pass
StartLeftToRight ==
    /\ pc = "r2l"
    /\ symbol < 0
    /\ currentSuffix' = 0
    /\ pc' = "l2r"
    /\ UNCHANGED <<callvars, input, pending, ub, copyEnd_, SA, stage1vars, sortvars,
                   symbol, endSuffix, bwtvars, mtvars, ibwtvars>>

\* one iteration of the while loop of
\* second_stage_its_left_to_right_pass_single_threaded
LeftToRightStep ==
    /\ pc = "l2r"
    /\ currentSuffix < inputSize_ + 1
    /\ LET currentSuffixIndex == SA[currentSuffix]
           precedingSuffixIndex == IndexOf(currentSuffixIndex) - 1
           precedingSymbol == Byte(precedingSuffixIndex)
       IN IF HasFlag(currentSuffixIndex)
          THEN IF IndexOf(currentSuffixIndex) # 0
               THEN /\ frontBucketOffset_' =
                          [frontBucketOffset_ EXCEPT ![precedingSymbol] = @ + 1]
                    /\ SA' = [SA EXCEPT
                                 ![frontBucketOffset_[precedingSymbol]] =
                                     PrecedingEntryA(precedingSuffixIndex),
                                 ![currentSuffix] = IndexOf(currentSuffixIndex)]
               ELSE /\ SA' = [SA EXCEPT ![currentSuffix] = IndexOf(currentSuffixIndex)]
                    /\ UNCHANGED frontBucketOffset_
          ELSE UNCHANGED <<SA, frontBucketOffset_>>
    /\ currentSuffix' = currentSuffix + 1
    /\ UNCHANGED <<callvars, input, pc, pending, ub, copyEnd_, threadBCount, threadACount,
                   bStarCount, aCount, bCount, aCount_, bCount_, total, bStarTotal,
                   totalBStarCount, bStarOffset, partitions, partitionCount,
                   backBucketOffset_, sortvars, symbol, endSuffix, bwtvars, mtvars, ibwtvars>>

\* the end of the left to right pass: make_suffix_array returns the array
ReturnSuffixArray ==
    /\ pc = "l2r"
    /\ op = "make_suffix_array"
    /\ ~(currentSuffix < inputSize_ + 1)
    /\ pc' = "done"
    /\ UNCHANGED <<callvars, input, pending, ub, copyEnd_, SA, stage1vars, sortvars, passvars, bwtvars, mtvars, ibwtvars>>

\* ----------------------------------------------------------------------
\* second_stage_its_as_burrows_wheeler_transform, single threaded
\* ----------------------------------------------------------------------
\* (uint8_t)x for an int32_t x
LowByteOf(x) == x % 256

\* one iteration of the while loop of the right to left pass.  The byte in
\* front of the suffix is read before the flag is tested: for an entry with
\* index 0 that is inputBegin_[-1], a byte in front of the buffer, and the
\* value read is not used
BwtRightToLeftStep ==
    /\ pc = "bwt_r2l"
    /\ symbol >= 0
    /\ LET precedingSuffixIndex == IndexOf(SA[currentSuffix]) - 1
           at == AfterSlot(symbol, currentSuffix - 1, endSuffix)
       IN /\ IF ~HasFlag(SA[currentSuffix])
             THEN LET precedingSymbol == Byte(precedingSuffixIndex)
                      bucket == (symbol * 256) + precedingSymbol
                  IN /\ backBucketOffset_' = [backBucketOffset_ EXCEPT ![bucket] = @ - 1]
                     /\ SA' = [SA EXCEPT
                                  ![backBucketOffset_[bucket] - 1] =
                                      PrecedingEntryB(precedingSuffixIndex),
                                  ![currentSuffix] =
                                      IF precedingSuffixIndex >= 0
                                      THEN precedingSymbol ELSE SA[currentSuffix]]
             ELSE UNCHANGED <<SA, backBucketOffset_>>
          /\ ub' = IF precedingSuffixIndex < 0
                   THEN "read of inputBegin_[-1] outside the input" ELSE ub
          /\ currentSuffix' = at.currentSuffix
          /\ symbol' = at.symbol
          /\ endSuffix' = at.endSuffix
    /\ UNCHANGED <<callvars, input, pc, pending, copyEnd_, threadBCount, threadACount,
                   bStarCount, aCount, bCount, aCount_, bCount_, total, bStarTotal,
                   totalBStarCount, bStarOffset, partitions, partitionCount,
                   frontBucketOffset_, sortvars, bwtvars, mtvars, ibwtvars>>

\* the end of the right to left pass and the start of the left to right pass
BwtStartLeftToRight ==
    /\ pc = "bwt_r2l"
    /\ symbol < 0
    /\ currentSuffix' = 0
    /\ sentinel' = 0
    /\ pc' = "bwt_l2r"
    /\ UNCHANGED <<callvars, input, pending, ub, copyEnd_, SA, stage1vars, sortvars,
                   symbol, endSuffix, sentinelIndex, mtvars, ibwtvars>>

BwtPrecedingEntryA_KeepsEntry(precedingSuffixIndex) == PrecedingEntryA(precedingSuffixIndex)

\* the value the left to right pass writes for the suffix in front of index:
\* the entry of that suffix if its own predecessor is of type A, else the
\* byte in front of it (the flag alone if it is suffix 0)
BwtPrecedingEntryA(precedingSuffixIndex) ==
    IF HasFlag(PrecedingEntryA(precedingSuffixIndex))
    THEN PrecedingEntryA(precedingSuffixIndex)
    ELSE IF precedingSuffixIndex > 0 THEN Byte(precedingSuffixIndex - 1)
    ELSE preceding_suffix_is_type_a_flag

\* one iteration of the while loop of the left to right pass
BwtLeftToRightStep ==
    /\ pc = "bwt_l2r"
    /\ currentSuffix < inputSize_ + 1
    /\ LET currentSuffixIndex == SA[currentSuffix]
           precedingSuffixIndex == IndexOf(currentSuffixIndex) - 1
       IN IF HasFlag(currentSuffixIndex)
          THEN /\ IF IndexOf(currentSuffixIndex) # 0
                  THEN LET precedingSymbol == Byte(precedingSuffixIndex)
                       IN /\ frontBucketOffset_' =
                                [frontBucketOffset_ EXCEPT ![precedingSymbol] = @ + 1]
                          /\ SA' = [SA EXCEPT
                                       ![frontBucketOffset_[precedingSymbol]] =
                                           BwtPrecedingEntryA(precedingSuffixIndex),
                                       ![currentSuffix] = precedingSymbol]
                  ELSE UNCHANGED <<SA, frontBucketOffset_>>
               /\ sentinel' = IF precedingSuffixIndex >= 0 THEN sentinel ELSE currentSuffix
          ELSE UNCHANGED <<SA, frontBucketOffset_, sentinel>>
    /\ currentSuffix' = currentSuffix + 1
    /\ UNCHANGED <<callvars, input, pc, pending, ub, copyEnd_, threadBCount, threadACount,
                   bStarCount, aCount, bCount, aCount_, bCount_, total, bStarTotal,
                   totalBStarCount, bStarOffset, partitions, partitionCount,
                   backBucketOffset_, sortvars, symbol, endSuffix, sentinelIndex, mtvars, ibwtvars>>

\* the end of the left to right pass and the last loop of
\* forward_burrows_wheeler_transform: the low bytes of all slots but the
\* sentinel's are written over the input
ReturnTransform ==
    /\ pc = "bwt_l2r"
    /\ ~(currentSuffix < inputSize_ + 1)
    /\ sentinelIndex' = sentinel
    /\ input' = [k \in 1 .. inputSize_ |->
                    LowByteOf(SA[IF k - 1 < sentinel THEN k - 1 ELSE k])]
    /\ pc' = "done"
    /\ UNCHANGED <<callvars, pending, ub, copyEnd_, SA, stage1vars, sortvars, passvars,
                   sentinel, mtvars, ibwtvars>>

\* ----------------------------------------------------------------------
\* second_stage_its, multi threaded
\* ----------------------------------------------------------------------
max_cache_size == 4096
numSymbolsPerThread == (256 + numThreads - 1) \div numThreads

\* the symbols the reserving task of thread t is given
SymbolsOf(t) ==
    {c \in Alphabet : c >= t * numSymbolsPerThread
                      /\ c < Min((t + 1) * numSymbolsPerThread, 256)}

\* the number of slots of symbol c the reserving task hands to the threads
\* with an id below u: the loop over threadId moves the cursor of the symbol
\* by sCount[threadId][symbol] after it has given the thread its cursor
ReservedBefore_Shared(u, c) == 0

ReservedBefore(u, c) ==
    SumOver([v \in Threads(numThreads) |-> sCount[v][c]], {v \in Threads(numThreads) : v < u})

\* the number of cached entries of every symbol
CountSymbols(entries) ==
    [c \in Alphabet |-> Cardinality({i \in DOMAIN entries : entries[i].precedingSuffix_ = c})]

\* the entries a scattering task has written when it has handled the first n
\* entries of its cache: where[c] is the slot of the first one of symbol c
\* and step the direction the slots are filled in
RECURSIVE Scatter(_, _, _, _, _)
Scatter(sa, entries, n, where, step) ==
    IF n = 0 THEN sa
    ELSE LET entry == entries[n]
             earlier == Cardinality({i \in 1 .. (n - 1) :
                                       entries[i].precedingSuffix_ = entry.precedingSuffix_})
         IN [Scatter(sa, entries, n - 1, where, step) EXCEPT
                ![where[entry.precedingSuffix_] + (step * earlier)] =
                    entry.precedingSuffixIndex_]

\* second_stage_its with worker threads, up to the first round of the right
\* to left pass
StartRightToLeftMultiThreaded ==
    /\ pc = "spread"
    /\ op = "make_suffix_array"
    /\ numThreads > 1
    /\ LET at == EnterBucket(LastSymbol, inputSize_)
       IN /\ currentSuffix' = at.currentSuffix
          /\ symbol' = at.symbol
          /\ endSuffix' = at.endSuffix
    /\ pc' = "mt_r2l"
    /\ UNCHANGED <<callvars, input, pending, ub, copyEnd_, SA, stage1vars, sortvars, bwtvars,
                   mtvars, ibwtvars>>

\* the slot the right to left pass stops a round at: the first slot at or
\* below temp that is maxEnd or holds suffix_is_unsorted_b_type
SafeEndRightToLeft_ToMaxEnd(temp, maxEnd) == maxEnd

RECURSIVE SafeEndRightToLeft(_, _)
SafeEndRightToLeft(temp, maxEnd) ==
    IF temp > maxEnd /\ SA[temp] # suffix_is_unsorted_b_type
    THEN SafeEndRightToLeft(temp - 1, maxEnd) ELSE temp

\* the top of the while loop of the right to left pass: the slots that are
\* safe to process are divided among the threads and the reading tasks posted
RightToLeftRound ==
    /\ pc = "mt_r2l"
    /\ symbol >= 0
    /\ LET maxEnd == Max(Max(currentSuffix - (max_cache_size * numThreads), 0), endSuffix)
           temp == SafeEndRightToLeft(currentSuffix, maxEnd)
           totalSuffixesPerThread == ((currentSuffix - temp) + numThreads - 1) \div numThreads
       IN /\ taskBegin' = [t \in Threads(numThreads) |->
                             Max(currentSuffix - (t * totalSuffixesPerThread), temp)]
          /\ taskEnd' = [t \in Threads(numThreads) |->
                           Max(currentSuffix - ((t + 1) * totalSuffixesPerThread), temp)]
          /\ currentSuffix' = temp
    /\ pending' = Threads(numThreads)
    /\ pc' = "mt_r2l_read"
    /\ UNCHANGED <<callvars, input, ub, copyEnd_, SA, stage1vars, sortvars, symbol, endSuffix,
                   bwtvars, cache, sCount, dest, ibwtvars>>

\* the entries the reading task of the right to left pass caches for the
\* slots begin down to end + 1
RECURSIVE ReadRightToLeft(_, _, _)
ReadRightToLeft(begin, end, entries) ==
    IF ~(begin > end) THEN entries
    ELSE IF ~HasFlag(SA[begin])
    THEN LET precedingSuffixIndex == IndexOf(SA[begin]) - 1
         IN ReadRightToLeft(begin - 1, end,
                Append(entries, [precedingSuffix_ |-> Byte(precedingSuffixIndex),
                                 precedingSuffixIndex_ |->
                                     PrecedingEntryB(precedingSuffixIndex)]))
    ELSE ReadRightToLeft(begin - 1, end, entries)

\* the reading task of one thread
RightToLeftRead(t) ==
    /\ pc = "mt_r2l_read"
    /\ t \in pending
    /\ LET entries == ReadRightToLeft(taskBegin[t], taskEnd[t], <<>>)
       IN /\ cache' = [cache EXCEPT ![t] = entries]
          /\ sCount' = [sCount EXCEPT ![t] =
                           [c \in Alphabet |-> sCount[t][c] + CountSymbols(entries)[c]]]
    /\ pending' = pending \ {t}
    /\ UNCHANGED <<callvars, input, pc, ub, copyEnd_, SA, stage1vars, sortvars, passvars,
                   bwtvars, dest, taskBegin, taskEnd, ibwtvars>>

\* after the barrier the reserving tasks are posted
RightToLeftPostReserve ==
    /\ pc = "mt_r2l_read"
    /\ pending = {}
    /\ pending' = Threads(numThreads)
    /\ pc' = "mt_r2l_reserve"
    /\ UNCHANGED <<callvars, input, ub, copyEnd_, SA, stage1vars, sortvars, passvars, bwtvars,
                   mtvars, ibwtvars>>

\* the reserving task of one thread: for each of its symbols the slots below
\* backBucketOffset are handed to the threads in the order of their ids
RightToLeftReserve(t) ==
    /\ pc = "mt_r2l_reserve"
    /\ t \in pending
    /\ LET before(u, c) == ReservedBefore(u, c)
           bucket(c) == (symbol * 256) + c
       IN /\ dest' = [u \in Threads(numThreads) |-> [c \in Alphabet |->
                         IF c \in SymbolsOf(t)
                         THEN backBucketOffset_[bucket(c)] - before(u, c) ELSE dest[u][c]]]
          /\ backBucketOffset_' = [k \in Keys |->
                         IF HighByte(k) = symbol /\ LowByte(k) \in SymbolsOf(t)
                         THEN backBucketOffset_[k] - before(numThreads, LowByte(k))
                         ELSE backBucketOffset_[k]]
          /\ sCount' = [u \in Threads(numThreads) |-> [c \in Alphabet |->
                         IF c \in SymbolsOf(t) THEN 0 ELSE sCount[u][c]]]
    /\ pending' = pending \ {t}
    /\ UNCHANGED <<callvars, input, pc, ub, copyEnd_, SA, threadBCount, threadACount,
                   bStarCount, aCount, bCount, aCount_, bCount_, total, bStarTotal,
                   totalBStarCount, bStarOffset, partitions, partitionCount,
                   frontBucketOffset_, sortvars, passvars, bwtvars, cache, taskBegin, taskEnd, ibwtvars>>

\* after the barrier the scattering tasks are posted
RightToLeftPostScatter ==
    /\ pc = "mt_r2l_reserve"
    /\ pending = {}
    /\ pending' = Threads(numThreads)
    /\ pc' = "mt_r2l_scatter"
    /\ UNCHANGED <<callvars, input, ub, copyEnd_, SA, stage1vars, sortvars, passvars, bwtvars,
                   mtvars, ibwtvars>>

\* the scattering task of one thread: *(--dest[symbol]) = entry
RightToLeftScatter(t) ==
    /\ pc = "mt_r2l_scatter"
    /\ t \in pending
    /\ SA' = Scatter(SA, cache[t], Len(cache[t]), [c \in Alphabet |-> dest[t][c] - 1], -1)
    /\ dest' = [dest EXCEPT ![t] =
                   [c \in Alphabet |-> dest[t][c] - CountSymbols(cache[t])[c]]]
    /\ pending' = pending \ {t}
    /\ UNCHANGED <<callvars, input, pc, ub, copyEnd_, stage1vars, sortvars, passvars, bwtvars,
                   cache, sCount, taskBegin, taskEnd, ibwtvars>>

\* after the barrier: the bottom of the while loop and the for loop up to the
\* next round
RightToLeftRoundEnd ==
    /\ pc = "mt_r2l_scatter"
    /\ pending = {}
    /\ LET at == AfterSlot(symbol, currentSuffix, endSuffix)
       IN /\ currentSuffix' = at.currentSuffix
          /\ symbol' = at.symbol
          /\ endSuffix' = at.endSuffix
    /\ pc' = "mt_r2l"
    /\ UNCHANGED <<callvars, input, pending, ub, copyEnd_, SA, stage1vars, sortvars, bwtvars,
                   mtvars, ibwtvars>>

\* the end of the right to left pass and the start of the left to right pass
StartLeftToRightMultiThreaded ==
    /\ pc = "mt_r2l"
    /\ symbol < 0
    /\ currentSuffix' = 0
    /\ pc' = "mt_l2r"
    /\ UNCHANGED <<callvars, input, pending, ub, copyEnd_, SA, stage1vars, sortvars,
                   symbol, endSuffix, bwtvars, mtvars, ibwtvars>>

\* the first slot at or after current that holds an entry with the flag
\* (suffixArrayEnd_ if there is none)
RECURSIVE NextFlagged(_)
NextFlagged(current) ==
    IF current < inputSize_ + 1 /\ ~HasFlag(SA[current])
    THEN NextFlagged(current + 1) ELSE current

\* the slot the left to right pass stops a round at
RECURSIVE SafeEndLeftToRight(_, _)
SafeEndLeftToRight(current, maxEnd) ==
    IF current # maxEnd /\ SA[current] # preceding_suffix_is_type_a_flag
    THEN SafeEndLeftToRight(current + 1, maxEnd) ELSE current

\* the top of the while loop of the left to right pass with a flagged entry
\* left: the slots that are safe to process are divided among the threads
\* and the reading tasks posted
LeftToRightRound ==
    /\ pc = "mt_l2r"
    /\ NextFlagged(currentSuffix) < inputSize_ + 1
    /\ LET begin == NextFlagged(currentSuffix)
           maxEnd == Min(begin + (max_cache_size * numThreads), inputSize_ + 1)
           end == SafeEndLeftToRight(begin + (IF begin # maxEnd THEN 1 ELSE 0), maxEnd)
           totalSuffixesPerThread == ((end - begin) + numThreads - 1) \div numThreads
       IN /\ taskBegin' = [t \in Threads(numThreads) |->
                             Min(begin + (t * totalSuffixesPerThread), end)]
          /\ taskEnd' = [t \in Threads(numThreads) |->
                           Min(begin + ((t + 1) * totalSuffixesPerThread), end)]
          /\ currentSuffix' = end
    /\ pending' = Threads(numThreads)
    /\ pc' = "mt_l2r_read"
    /\ UNCHANGED <<callvars, input, ub, copyEnd_, SA, stage1vars, sortvars, symbol, endSuffix,
                   bwtvars, cache, sCount, dest, ibwtvars>>

\* the entries the reading task of the left to right pass caches for the
\* slots begin up to end - 1
RECURSIVE ReadLeftToRight(_, _, _)
ReadLeftToRight(begin, end, entries) ==
    IF begin = end THEN entries
    ELSE IF HasFlag(SA[begin]) /\ IndexOf(SA[begin]) # 0
    THEN LET precedingSuffixIndex == IndexOf(SA[begin]) - 1
         IN ReadLeftToRight(begin + 1, end,
                Append(entries, [precedingSuffix_ |-> Byte(precedingSuffixIndex),
                                 precedingSuffixIndex_ |->
                                     PrecedingEntryA(precedingSuffixIndex)]))
    ELSE ReadLeftToRight(begin + 1, end, entries)

\* the reading task of one thread; it clears the flag of the slots it reads
LeftToRightRead(t) ==
    /\ pc = "mt_l2r_read"
    /\ t \in pending
    /\ LET entries == ReadLeftToRight(taskBegin[t], taskEnd[t], <<>>)
       IN /\ cache' = [cache EXCEPT ![t] = entries]
          /\ sCount' = [sCount EXCEPT ![t] =
                           [c \in Alphabet |-> sCount[t][c] + CountSymbols(entries)[c]]]
    /\ SA' = [i \in SlotRange |->
                 IF i >= taskBegin[t] /\ i < taskEnd[t] THEN IndexOf(SA[i]) ELSE SA[i]]
    /\ pending' = pending \ {t}
    /\ UNCHANGED <<callvars, input, pc, ub, copyEnd_, stage1vars, sortvars, passvars,
                   bwtvars, dest, taskBegin, taskEnd, ibwtvars>>

\* after the barrier the reserving tasks are posted
LeftToRightPostReserve ==
    /\ pc = "mt_l2r_read"
    /\ pending = {}
    /\ pending' = Threads(numThreads)
    /\ pc' = "mt_l2r_reserve"
    /\ UNCHANGED <<callvars, input, ub, copyEnd_, SA, stage1vars, sortvars, passvars, bwtvars,
                   mtvars, ibwtvars>>

\* the reserving task of one thread: for each of its symbols the slots from
\* frontBucketOffset_ on are handed to the threads in the order of their ids
LeftToRightReserve(t) ==
    /\ pc = "mt_l2r_reserve"
    /\ t \in pending
    /\ LET before(u, c) == ReservedBefore(u, c)
       IN /\ dest' = [u \in Threads(numThreads) |-> [c \in Alphabet |->
                         IF c \in SymbolsOf(t)
                         THEN frontBucketOffset_[c] + before(u, c) ELSE dest[u][c]]]
          /\ frontBucketOffset_' = [c \in Alphabet |->
                         IF c \in SymbolsOf(t)
                         THEN frontBucketOffset_[c] + before(numThreads, c)
                         ELSE frontBucketOffset_[c]]
          /\ sCount' = [u \in Threads(numThreads) |-> [c \in Alphabet |->
                         IF c \in SymbolsOf(t) THEN 0 ELSE sCount[u][c]]]
    /\ pending' = pending \ {t}
    /\ UNCHANGED <<callvars, input, pc, ub, copyEnd_, SA, threadBCount, threadACount,
                   bStarCount, aCount, bCount, aCount_, bCount_, total, bStarTotal,
                   totalBStarCount, bStarOffset, partitions, partitionCount,
                   backBucketOffset_, sortvars, passvars, bwtvars, cache, taskBegin, taskEnd, ibwtvars>>

\* after the barrier the scattering tasks are posted
LeftToRightPostScatter ==
    /\ pc = "mt_l2r_reserve"
    /\ pending = {}
    /\ pending' = Threads(numThreads)
    /\ pc' = "mt_l2r_scatter"
    /\ UNCHANGED <<callvars, input, ub, copyEnd_, SA, stage1vars, sortvars, passvars, bwtvars,
                   mtvars, ibwtvars>>

\* the scattering task of one thread: *(dest[symbol]++) = entry
LeftToRightScatter(t) ==
    /\ pc = "mt_l2r_scatter"
    /\ t \in pending
    /\ SA' = Scatter(SA, cache[t], Len(cache[t]), dest[t], 1)
    /\ dest' = [dest EXCEPT ![t] =
                   [c \in Alphabet |-> dest[t][c] + CountSymbols(cache[t])[c]]]
    /\ pending' = pending \ {t}
    /\ UNCHANGED <<callvars, input, pc, ub, copyEnd_, stage1vars, sortvars, passvars, bwtvars,
                   cache, sCount, taskBegin, taskEnd, ibwtvars>>

\* after the barrier: back to the top of the while loop
LeftToRightRoundEnd ==
    /\ pc = "mt_l2r_scatter"
    /\ pending = {}
    /\ pc' = "mt_l2r"
    /\ UNCHANGED <<callvars, input, pending, ub, copyEnd_, SA, stage1vars, sortvars, passvars,
                   bwtvars, mtvars, ibwtvars>>

\* the while loop of the left to right pass finds no flagged entry:
\* make_suffix_array returns the array
ReturnSuffixArrayMultiThreaded ==
    /\ pc = "mt_l2r"
    /\ ~(NextFlagged(currentSuffix) < inputSize_ + 1)
    /\ currentSuffix' = NextFlagged(currentSuffix)
    /\ pc' = "done"
    /\ UNCHANGED <<callvars, input, pending, ub, copyEnd_, SA, stage1vars, sortvars,
                   symbol, endSuffix, bwtvars, mtvars, ibwtvars>>

\* ----------------------------------------------------------------------
\* reverse_burrows_wheeler_transform: the vector index
\* ----------------------------------------------------------------------
\* positions of the buffer are offsets from inputBegin; the null pointer
\* compares below every position
nullptr == -1
maxPartitionsPerThread == 256
\* index[0].value_ as it is read before the partitions are made
firstDecodeIndex == sentinelIndex

\* the caller hands the buffer that forward_burrows_wheeler_transform has
\* rewritten, and the sentinel index it returned, to the reverse transform
StartReverse ==
    /\ pc = "done"
    /\ op = "forward_burrows_wheeler_transform"
    /\ \E p \in 1 .. MaxThreads : numThreads' = p
    /\ op' = "reverse_burrows_wheeler_transform"
    /\ roundTrip' = TRUE
    /\ pc' = "start"
    /\ UNCHANGED <<littleEndian, original, input, pending, ub, copyEnd_, SA, stage1vars,
                   sortvars, passvars, bwtvars, mtvars, ibwtIndex, symbolRange,
                   ibwtPartitionInfo, decodedInfo, availableDecodeSpace,
                   threadPartitionBegin, threadPartitionEnd>>

bytesPerThread == (inputSize_ + numThreads - 1) \div numThreads
\* bytesProcessed when the thread of threadId t is started, and after it
BytesBegin(t) == Min(t * bytesPerThread, inputSize_)
BytesEnd(t) == Min((t + 1) * bytesPerThread, inputSize_)

\* index.resize and the start of the counting threads; every entry of index
\* is written before it is read
ReverseSetUp ==
    /\ pc = "start"
    /\ op = "reverse_burrows_wheeler_transform"
    /\ ibwtIndex' = [k \in 0 .. inputSize_ |-> [value_ |-> 0, symbol_ |-> 0]]
    /\ symbolRange' = [t \in Threads(numThreads) |-> ZeroBytes]
    /\ pending' = Threads(numThreads)
    /\ pc' = "ibwt_count"
    /\ UNCHANGED <<callvars, input, ub, copyEnd_, SA, stage1vars, sortvars, passvars, bwtvars,
                   mtvars, roundTrip, ibwtPartitionInfo, decodedInfo, availableDecodeSpace,
                   threadPartitionBegin, threadPartitionEnd>>

\* the first thread lambda: the symbols of data[0 .. size) are counted two at
\* a time, both bytes of a pair are added to result, then the odd last byte
SymbolCounts(begin, size) ==
    LET pairs == {i \in 0 .. (size - 2) : i % 2 = 0}
    IN [c \in Alphabet |->
           Cardinality({i \in pairs : Byte(begin + i) = c})
           + Cardinality({i \in pairs : Byte(begin + i + 1) = c})
           + (IF size % 2 = 1 /\ Byte(begin + size - 1) = c THEN 1 ELSE 0)]

IbwtCountTask(t) ==
    /\ pc = "ibwt_count"
    /\ t \in pending
    /\ LET counts == SymbolCounts(BytesBegin(t), BytesEnd(t) - BytesBegin(t))
       IN symbolRange' = [symbolRange EXCEPT ![t] = [c \in Alphabet |-> @[c] + counts[c]]]
    /\ pending' = pending \ {t}
    /\ UNCHANGED <<callvars, input, pc, ub, copyEnd_, SA, stage1vars, sortvars, passvars,
                   bwtvars, mtvars, roundTrip, ibwtIndex, ibwtPartitionInfo, decodedInfo,
                   availableDecodeSpace, threadPartitionBegin, threadPartitionEnd>>

\* after the join: the counts become the first slot of every symbol and
\* thread (n starts at 1), index[0] is set and the second threads are started.
\* With an empty buffer inputBegin[0] is a byte behind it: any value can be read
IbwtIndexSetUp ==
    /\ pc = "ibwt_count"
    /\ pending = {}
    /\ LET pairs == Alphabet \X Threads(numThreads)
           before(c, t) == SumOver([x \in pairs |->
                                       IF x[1] < c \/ (x[1] = c /\ x[2] < t)
                                       THEN symbolRange[x[2]][x[1]] ELSE 0], pairs)
       IN symbolRange' = [t \in Threads(numThreads) |-> [c \in Alphabet |-> 1 + before(c, t)]]
    /\ \E first \in (IF inputSize_ > 0 THEN {Byte(0)} ELSE Alphabet) :
          ibwtIndex' = [ibwtIndex EXCEPT ![0] = [value_ |-> sentinelIndex, symbol_ |-> first]]
    /\ ub' = IF inputSize_ > 0 THEN ub ELSE "read of inputBegin[0] outside the buffer"
    /\ pending' = Threads(numThreads)
    /\ pc' = "ibwt_populate"
    /\ UNCHANGED <<callvars, input, copyEnd_, SA, stage1vars, sortvars, passvars, bwtvars,
                   mtvars, roundTrip, ibwtPartitionInfo, decodedInfo, availableDecodeSpace,
                   threadPartitionBegin, threadPartitionEnd>>

\* the second thread lambda at iteration i: n after n += (i == sentinelIndex),
\* n having started at begin + (begin > sentinelIndex)
IndexValue(i) == IF i >= sentinelIndex THEN i + 1 ELSE i
\* k = symbolRange[data[i]]++ at iteration i of thread t
IndexSlot(t, i) ==
    symbolRange[t][Byte(i)]
    + Cardinality({j \in BytesBegin(t) .. (i - 1) : Byte(j) = Byte(i)})
\* a reading position that skips every row up to the sentinel's, whatever k is
SymbolSource_Shifted(k) == k - 1
\* the position of data read for slot k: k - (k >= sentinelIndex)
SymbolSource(k) == IF k >= sentinelIndex THEN k - 1 ELSE k

\* with sentinelIndex above the size of the buffer the last slot reads
\* data[inputSize], a byte behind the buffer.  slotOf holds the slot of every
\* iteration of the thread with the iteration
IbwtPopulateTask(t) ==
    /\ pc = "ibwt_populate"
    /\ t \in pending
    /\ \E slotOf \in {{<<IndexSlot(t, i), i>> : i \in BytesBegin(t) .. (BytesEnd(t) - 1)}} :
       \E outside \in {\E x \in slotOf : SymbolSource(x[1]) >= inputSize_} :
          /\ \E past \in (IF outside THEN Alphabet ELSE {0}) :
                ibwtIndex' =
                    [k \in DOMAIN ibwtIndex |->
                        IF \E x \in slotOf : x[1] = k
                        THEN [value_ |-> IndexValue((CHOOSE x \in slotOf : x[1] = k)[2]),
                              symbol_ |-> IF SymbolSource(k) >= inputSize_
                                          THEN past ELSE Byte(SymbolSource(k))]
                        ELSE ibwtIndex[k]]
          /\ ub' = IF outside THEN "read of data[inputSize] outside the buffer" ELSE ub
    /\ symbolRange' = [symbolRange EXCEPT ![t] =
                          [c \in Alphabet |->
                              @[c] + Cardinality({i \in BytesBegin(t) .. (BytesEnd(t) - 1) :
                                                     Byte(i) = c})]]
    /\ pending' = pending \ {t}
    /\ UNCHANGED <<callvars, input, pc, copyEnd_, SA, stage1vars, sortvars, passvars, bwtvars,
                   mtvars, roundTrip, ibwtPartitionInfo, decodedInfo, availableDecodeSpace,
                   threadPartitionBegin, threadPartitionEnd>>

\* ----------------------------------------------------------------------
\* reverse_burrows_wheeler_transform: the partitions and the round loop
\* ----------------------------------------------------------------------
PartitionEndOutput_Whole(outputCurrent, partitionSize) == inputSize_

\* the end of the output a new partition is given: outputCurrent +
\* partitionSize, or inputEnd if that is behind it
PartitionEndOutput(outputCurrent, partitionSize) ==
    Min(outputCurrent + partitionSize, inputSize_)

\* after the join: one partition per maxBytesPerPartition entries of index,
\* with as many bytes of the buffer (cut at inputEnd); the entry a partition
\* starts at is flagged
IbwtPartitionSetUp ==
    /\ pc = "ibwt_populate"
    /\ pending = {}
    /\ LET size == inputSize_ + 1
           count == Min(numThreads * maxPartitionsPerThread, size)
           maxBytesPerPartition == ((size * 2) - 1) \div count
           pushed == (size + maxBytesPerPartition - 1) \div maxBytesPerPartition
           at(j) == (j - 1) * maxBytesPerPartition
           partitionSize(j) == Min(maxBytesPerPartition, size - at(j))
       IN /\ ibwtPartitionInfo' =
                 [j \in 1 .. pushed |->
                     [startIndex_ |-> ibwtIndex[at(j)].value_,
                      currentIndex_ |-> ibwtIndex[at(j)].value_,
                      beginOutput_ |-> at(j),
                      currentOutput_ |-> at(j),
                      endOutput_ |-> PartitionEndOutput(at(j), partitionSize(j))]]
          /\ ibwtIndex' = [k \in DOMAIN ibwtIndex |->
                              IF k % maxBytesPerPartition = 0
                              THEN [ibwtIndex[k] EXCEPT !.value_ = WithFlag(@)]
                              ELSE ibwtIndex[k]]
    /\ decodedInfo' = <<>>
    /\ availableDecodeSpace' = <<>>
    /\ pc' = "ibwt_round"
    /\ UNCHANGED <<callvars, input, pending, ub, copyEnd_, SA, stage1vars, sortvars, passvars,
                   bwtvars, mtvars, roundTrip, symbolRange, threadPartitionBegin,
                   threadPartitionEnd>>

\* the head of the round loop: the partitions are dealt to the threads from
\* the end of the list
IbwtRoundStart ==
    /\ pc = "ibwt_round"
    /\ ibwtPartitionInfo # <<>>
    /\ LET partitionsRemaining == Len(ibwtPartitionInfo)
           perThread == Max(1, ((partitionsRemaining * 2) - 1) \div numThreads)
       IN /\ threadPartitionBegin' =
                 [t \in Threads(numThreads) |->
                     Max(0, partitionsRemaining - ((t + 1) * perThread))]
          /\ threadPartitionEnd' =
                 [t \in Threads(numThreads) |-> Max(0, partitionsRemaining - (t * perThread))]
    /\ pending' = Threads(numThreads)
    /\ pc' = "ibwt_decode"
    /\ UNCHANGED <<callvars, input, ub, copyEnd_, SA, stage1vars, sortvars, passvars, bwtvars,
                   mtvars, roundTrip, ibwtIndex, symbolRange, ibwtPartitionInfo, decodedInfo,
                   availableDecodeSpace>>

\* one iteration of the while loop of the decoding lambda on one partition.
\* st holds the partition, the buffer and whether an entry outside index was
\* read; the loop has ended when the index is flagged, the space is used up or
\* such an entry was read
DecodeEnded(st) ==
    st.outside \/ HasFlag(st.e.currentIndex_) \/ ~(st.e.currentOutput_ < st.e.endOutput_)

DecodeStep(st) ==
    IF DecodeEnded(st) THEN st
    ELSE LET i == st.e.currentIndex_
         IN IF i > inputSize_
            THEN [st EXCEPT !.outside = TRUE]
            ELSE [e |-> [st.e EXCEPT
                            !.currentOutput_ = IF i # sentinelIndex THEN @ + 1 ELSE @,
                            !.currentIndex_ = ibwtIndex[i].value_],
                  buffer |-> [st.buffer EXCEPT
                                 ![st.e.currentOutput_ + 1] = ibwtIndex[i].symbol_],
                  outside |-> FALSE]

\* the state after at most rounds iterations, taken in two halves
RECURSIVE DecodeLoop(_, _)
DecodeLoop(st, rounds) ==
    IF DecodeEnded(st) \/ rounds = 0 THEN st
    ELSE IF rounds = 1 THEN DecodeStep(st)
    ELSE CHOOSE last \in {DecodeLoop(half, rounds - (rounds \div 2)) :
                              half \in {DecodeLoop(st, rounds \div 2)}} : TRUE

\* the decoding lambda on one partition: the partitions of a thread own
\* disjoint parts of the buffer, so each is followed on its own until its
\* index is flagged or its space is used up.  An iteration writes a byte of
\* its space unless it is at the sentinel's entry
DecodePartition(st) == DecodeLoop(st, 2 * (inputSize_ + 2))

\* the decoding task of one thread in a round
IbwtDecodeTask(t) ==
    /\ pc = "ibwt_decode"
    /\ t \in pending
    /\ \E decoded \in {[j \in (threadPartitionBegin[t] + 1) .. threadPartitionEnd[t] |->
                            DecodePartition([e |-> ibwtPartitionInfo[j], buffer |-> input,
                                             outside |-> FALSE])]} :
       LET mine == DOMAIN decoded
           owner(at) == {j \in mine : /\ ibwtPartitionInfo[j].currentOutput_ <= at
                                      /\ at < ibwtPartitionInfo[j].endOutput_}
       IN IF \E j \in mine : decoded[j].outside
          THEN /\ pc' = "fault"
               /\ ub' = "read of an entry outside index"
               /\ UNCHANGED <<input, ibwtPartitionInfo>>
          ELSE /\ ibwtPartitionInfo' =
                      [j \in DOMAIN ibwtPartitionInfo |->
                          IF j \in mine THEN decoded[j].e ELSE ibwtPartitionInfo[j]]
               /\ input' = [q \in DOMAIN input |->
                               IF owner(q - 1) = {} THEN input[q]
                               ELSE decoded[CHOOSE j \in owner(q - 1) : TRUE].buffer[q]]
               /\ UNCHANGED <<pc, ub>>
    /\ pending' = pending \ {t}
    /\ UNCHANGED <<callvars, copyEnd_, SA, stage1vars, sortvars, passvars, bwtvars, mtvars,
                   roundTrip, ibwtIndex, symbolRange, decodedInfo, availableDecodeSpace,
                   threadPartitionBegin, threadPartitionEnd>>

\* after the join: the pieces decoded in the round are recorded, the
\* partitions that met a flagged entry are erased and hand back the space they
\* did not use, and every partition left is given the space at the back of
\* availableDecodeSpace, or none
IbwtRoundEnd ==
    /\ pc = "ibwt_decode"
    /\ pending = {}
    /\ LET Recorded(e) == /\ e.currentOutput_ # nullptr
                          /\ HasFlag(e.currentIndex_) \/ e.beginOutput_ # e.currentOutput_
           Erased(e) == HasFlag(e.currentIndex_)
           HandsBack(e) == Erased(e) /\ e.currentOutput_ < e.endOutput_
           Left(e) == ~Erased(e)
           recorded == SelectSeq(ibwtPartitionInfo, Recorded)
           handedBack == SelectSeq(ibwtPartitionInfo, HandsBack)
           left == SelectSeq([j \in 1 .. Len(ibwtPartitionInfo) |->
                                 IF Recorded(ibwtPartitionInfo[j])
                                 THEN [ibwtPartitionInfo[j] EXCEPT
                                          !.startIndex_ =
                                              IndexOf(ibwtPartitionInfo[j].currentIndex_)]
                                 ELSE ibwtPartitionInfo[j]], Left)
           space == availableDecodeSpace
                    \o [j \in 1 .. Len(handedBack) |->
                           <<handedBack[j].currentOutput_, handedBack[j].endOutput_>>]
           given(j) == (Len(space) - j) + 1
       IN /\ decodedInfo' =
                 decodedInfo
                 \o [j \in 1 .. Len(recorded) |->
                        [begin_ |-> recorded[j].beginOutput_,
                         end_ |-> recorded[j].currentOutput_,
                         startIndex_ |-> recorded[j].startIndex_,
                         endIndex_ |-> IndexOf(recorded[j].currentIndex_)]]
          /\ ibwtPartitionInfo' =
                 [j \in 1 .. Len(left) |->
                     IF given(j) >= 1
                     THEN [left[j] EXCEPT !.beginOutput_ = space[given(j)][1],
                                          !.currentOutput_ = space[given(j)][1],
                                          !.endOutput_ = space[given(j)][2]]
                     ELSE [left[j] EXCEPT !.currentOutput_ = nullptr,
                                          !.endOutput_ = nullptr]]
          /\ availableDecodeSpace' = SubSeq(space, 1, Max(0, Len(space) - Len(left)))
          /\ pc' = IF Len(left) = 0 THEN "ibwt_assemble" ELSE "ibwt_round"
    /\ UNCHANGED <<callvars, input, pending, ub, copyEnd_, SA, stage1vars, sortvars, passvars,
                   bwtvars, mtvars, roundTrip, ibwtIndex, symbolRange, threadPartitionBegin,
                   threadPartitionEnd>>

\* ----------------------------------------------------------------------
\* reverse_burrows_wheeler_transform: the decoded pieces are put in order
\* ----------------------------------------------------------------------
\* the first entry of decodedInfo whose startIndex_ is v (0 if there is none)
FindDecoded(v) ==
    LET found == {j \in 1 .. Len(decodedInfo) : decodedInfo[j].startIndex_ = v}
    IN IF found = {} THEN 0 ELSE CHOOSE j \in found : \A m \in found : j <= m

\* one iteration of the last while loop: st holds the bytes written, curDec,
\* curDecEnd and curEndIndex, and whether the loop is running, has ended or
\* is stuck.  An iteration that copies nothing and finds no entry leaves the
\* loop where it was, and so does every later one
AssembleStep(st) ==
    IF st.state # "running" THEN st
    ELSE IF ~(Len(st.written) < inputSize_) THEN [st EXCEPT !.state = "ended"]
    ELSE LET copied == Min(inputSize_ - Len(st.written), Max(0, st.curDecEnd - st.curDec))
             written == st.written \o [q \in 1 .. copied |-> input[st.curDec + q]]
             j == FindDecoded(st.curEndIndex)
         IN IF copied = 0 /\ j = 0
            THEN [st EXCEPT !.state = "stuck"]
            ELSE IF j = 0
                 THEN [st EXCEPT !.written = written, !.curDec = @ + copied]
                 ELSE [state |-> "running", written |-> written,
                       curDec |-> decodedInfo[j].begin_,
                       curDecEnd |-> decodedInfo[j].end_,
                       curEndIndex |-> decodedInfo[j].endIndex_]

\* the last while loop: the state after at most rounds iterations, taken in
\* two halves, the second from the state the first has left; rounds bounds
\* the iterations that only move between empty pieces
RECURSIVE AssembleLoop(_, _)
AssembleLoop(st, rounds) ==
    IF st.state # "running" \/ rounds = 0 THEN st
    ELSE IF rounds = 1 THEN AssembleStep(st)
    ELSE CHOOSE last \in {AssembleLoop(half, rounds - (rounds \div 2)) :
                              half \in {AssembleLoop(st, rounds \div 2)}} : TRUE

\* the code after the round loop up to the end of the last loop: the bytes
\* written to beginWrite and whether the loop ends
Assembled ==
    LET first == FindDecoded(firstDecodeIndex)
        st == IF first = 0
              THEN [state |-> "running", written |-> <<>>, curDec |-> nullptr,
                    curDecEnd |-> nullptr, curEndIndex |-> 0]
              ELSE [state |-> "running", written |-> <<>>,
                    curDec |-> decodedInfo[first].begin_,
                    curDecEnd |-> decodedInfo[first].end_,
                    curEndIndex |-> decodedInfo[first].endIndex_]
        last == AssembleLoop(st, ((inputSize_ + 1) * (Len(decodedInfo) + 1)) + 1)
    IN [written |-> last.written, returns |-> last.state = "ended"]

\* the last loop and std::copy(beginWrite, endWrite, inputBegin); a loop that
\* does not end leaves the call where it is
IbwtAssemble ==
    /\ pc = "ibwt_assemble"
    /\ IF Assembled.returns
       THEN /\ input' = Assembled.written
            /\ pc' = "done"
       ELSE UNCHANGED <<input, pc>>
    /\ UNCHANGED <<callvars, pending, ub, copyEnd_, SA, stage1vars, sortvars, passvars, bwtvars,
                   mtvars, ibwtvars>>

vars == <<callvars, input, pc, pending, ub, copyEnd_, SA, stage1vars, sortvars, passvars,
          bwtvars, mtvars, ibwtvars>>

Next ==
    \/ SetUp
    \/ \E t \in Threads(numThreads) : CountTask(t)
    \/ ReduceCounts
    \/ ComputeOffsets
    \/ \E t \in Threads(numThreads) : RadixTask(t)
    \/ StartQuicksort
    \/ \E t \in Threads(numThreads) : TakePartition(t)
    \/ \E t \in Threads(numThreads) : QuicksortCall(t)
    \/ \E t \in Threads(numThreads) : InsertionStep(t)
    \/ StartTandemRepeats
    \/ \E t \in Threads(numThreads) : CompleteTandemRepeat(t)
    \/ SpreadBStar
    \/ StartRightToLeft
    \/ RightToLeftStep
    \/ StartLeftToRight
    \/ LeftToRightStep
    \/ ReturnSuffixArray
    \/ StartRightToLeftMultiThreaded
    \/ RightToLeftRound
    \/ \E t \in Threads(numThreads) : RightToLeftRead(t)
    \/ RightToLeftPostReserve
    \/ \E t \in Threads(numThreads) : RightToLeftReserve(t)
    \/ RightToLeftPostScatter
    \/ \E t \in Threads(numThreads) : RightToLeftScatter(t)
    \/ RightToLeftRoundEnd
    \/ StartLeftToRightMultiThreaded
    \/ LeftToRightRound
    \/ \E t \in Threads(numThreads) : LeftToRightRead(t)
    \/ LeftToRightPostReserve
    \/ \E t \in Threads(numThreads) : LeftToRightReserve(t)
    \/ LeftToRightPostScatter
    \/ \E t \in Threads(numThreads) : LeftToRightScatter(t)
    \/ LeftToRightRoundEnd
    \/ ReturnSuffixArrayMultiThreaded
    \/ BwtRightToLeftStep
    \/ BwtStartLeftToRight
    \/ BwtLeftToRightStep
    \/ ReturnTransform
    \/ StartReverse
    \/ ReverseSetUp
    \/ \E t \in Threads(numThreads) : IbwtCountTask(t)
    \/ IbwtIndexSetUp
    \/ \E t \in Threads(numThreads) : IbwtPopulateTask(t)
    \/ IbwtPartitionSetUp
    \/ IbwtRoundStart
    \/ \E t \in Threads(numThreads) : IbwtDecodeTask(t)
    \/ IbwtRoundEnd
    \/ IbwtAssemble

Spec == Init /\ [][Next]_vars

\* the second specification: a task posted to a thread runs, and the
\* calling thread goes on when the tasks it waits for have completed.  The
\* fairness is stated for the steps of the multi threaded second stage and of
\* the round loop of the reverse transform
MultiThreadedFairness ==
    /\ WF_vars(RightToLeftRound)
    /\ WF_vars(RightToLeftPostReserve)
    /\ WF_vars(RightToLeftPostScatter)
    /\ WF_vars(RightToLeftRoundEnd)
    /\ WF_vars(StartLeftToRightMultiThreaded)
    /\ WF_vars(LeftToRightRound)
    /\ WF_vars(LeftToRightPostReserve)
    /\ WF_vars(LeftToRightPostScatter)
    /\ WF_vars(LeftToRightRoundEnd)
    /\ WF_vars(ReturnSuffixArrayMultiThreaded)
    /\ \A t \in Threads(MaxThreads) :
          /\ WF_vars(RightToLeftRead(t))
          /\ WF_vars(RightToLeftReserve(t))
          /\ WF_vars(RightToLeftScatter(t))
          /\ WF_vars(LeftToRightRead(t))
          /\ WF_vars(LeftToRightReserve(t))
          /\ WF_vars(LeftToRightScatter(t))

ReverseFairness ==
    /\ WF_vars(IbwtRoundStart)
    /\ WF_vars(IbwtRoundEnd)
    /\ \A t \in Threads(MaxThreads) : WF_vars(IbwtDecodeTask(t))

FairSpec == Init /\ [][Next]_vars /\ MultiThreadedFairness /\ ReverseFairness

\* ----------------------------------------------------------------------
\* The suffix array by definition
\* ----------------------------------------------------------------------
\* suffix i of s is smaller than suffix j: at the first position where they
\* differ suffix i has the smaller byte or has ended (the sentinel)
RECURSIVE SuffixLess(_, _, _)
SuffixLess(s, i, j) ==
    IF i = j THEN FALSE
    ELSE IF i >= Len(s) THEN TRUE
    ELSE IF j >= Len(s) THEN FALSE
    ELSE IF s[i + 1] # s[j + 1] THEN s[i + 1] < s[j + 1]
    ELSE SuffixLess(s, i + 1, j + 1)

Rank(s, i) == Cardinality({j \in 0 .. Len(s) : SuffixLess(s, j, i)})
ReferenceSA(s) == [r \in 0 .. Len(s) |-> CHOOSE i \in 0 .. Len(s) : Rank(s, i) = r]

\* ----------------------------------------------------------------------
\* The returned suffix array
\* ----------------------------------------------------------------------
Returned(o, p) == pc = "done" /\ op = o /\ numThreads = p

\* C1: for a non-empty input of length N, make_suffix_array with one thread
\* returns N + 1 entries in which every value of 0 .. N occurs exactly once,
\* none of them carrying the type A flag
C1_PermutationOfPlainIndices ==
    (Returned("make_suffix_array", 1) /\ Len(original) >= 1) =>
        /\ DOMAIN SA = 0 .. Len(original)
        /\ \A k \in DOMAIN SA : ~HasFlag(SA[k])
        /\ \A v \in 0 .. Len(original) : Cardinality({k \in DOMAIN SA : SA[k] = v}) = 1

\* a call with an input of the largest length has returned, and the left to
\* right pass has walked over all its slots
C1_Returned ==
    /\ Returned("make_suffix_array", 1)
    /\ Len(original) = MaxLen
    /\ currentSuffix = Len(original) + 1
    /\ \E k \in DOMAIN SA : k > 0 /\ SA[k] = 0

\* C2: for a non-empty input (byte 0 included), the array returned by
\* make_suffix_array with one thread starts with N and every entry's suffix is
\* smaller than the next entry's, a proper prefix being the smaller one
C2_SortedSuffixes ==
    (Returned("make_suffix_array", 1) /\ Len(original) >= 1) =>
        /\ SA[0] = Len(original)
        /\ \A k \in 0 .. (Len(original) - 1) : SuffixLess(original, SA[k], SA[k + 1])

\* a call has returned for an input that holds the byte 0 next to other
\* bytes and has suffixes that are proper prefixes of others
C2_ReturnedWithZeroByte ==
    /\ Returned("make_suffix_array", 1)
    /\ Len(original) >= 3
    /\ original[1] = 0 /\ original[Len(original)] = 0
    /\ \E i \in 1 .. Len(original) : original[i] # 0
    /\ SA[0] = Len(original) /\ SA[1] = Len(original) - 1

\* ----------------------------------------------------------------------
\* The transforms
\* ----------------------------------------------------------------------
\* C3: when the forward transform (one thread) has rewritten a non-empty
\* string s and the reverse transform, with any number of threads, is applied
\* to the result and the sentinel index returned, the buffer the reverse
\* transform returns holds exactly s
C3_RoundTrip ==
    (Returned("reverse_burrows_wheeler_transform", numThreads) /\ roundTrip
     /\ Len(original) >= 1) =>
        input = original

\* a round trip of a string of the largest length has returned with the
\* largest number of threads: its pieces were decoded in more than one round,
\* and the string differs from its transform
C3_RoundTripReturned ==
    /\ Returned("reverse_burrows_wheeler_transform", MaxThreads)
    /\ roundTrip
    /\ Len(original) = MaxLen
    /\ Len(decodedInfo) = MaxLen + 1
    /\ availableDecodeSpace = <<>>
    /\ \E k \in 1 .. MaxLen : original[k] # original[1]
    /\ sentinelIndex > 0

\* ----------------------------------------------------------------------
\* The thread count
\* ----------------------------------------------------------------------
\* C4: for a non-empty input and more than one thread, a call of
\* make_suffix_array that has reached its second stage returns, under every
\* fair order of the thread tasks, and returns the array the call with one
\* thread returns (the suffixes in increasing order)
C4_ThreadCountInvariance ==
    (op = "make_suffix_array" /\ Len(original) >= 1 /\ pc = "mt_r2l")
        ~> (op = "make_suffix_array" /\ pc = "done" /\ SA = ReferenceSA(original))

\* ----------------------------------------------------------------------
\* The classification sweep
\* ----------------------------------------------------------------------
\* the positions the count_suffixes task of thread t sweeps, and the number of
\* them with a two-byte key and a type as get_suffix_type gives it
SweptBy(t) == SliceBegin(t) .. (SliceEnd(t) - 1)
TypeCount(t, k, type) ==
    Cardinality({i \in SweptBy(t) : Key16(i) = k /\ get_suffix_type(i) = type})
\* the states the sweep can be in at position i + 1 when it has classified
\* that position as get_suffix_type does
StatesAt(i) == {state \in 0 .. 3 : TypeOfState(state) = get_suffix_type(i)}

\* C11: for an input of at least two bytes, the sweep of count_suffixes gives
\* every position the type get_suffix_type returns for it.  The tables a
\* finished count_suffixes task has filled hold, for every two-byte key, the
\* number of positions of its slice of each type; and from the type of
\* position i + 1 one step of the sweep (wherever the slice began) gives
\* position i its type, so the result is the same for every split
C11_SweepAgreesWithGetSuffixType ==
    (pc = "count" /\ inputSize_ >= 2) =>
        /\ \A t \in Threads(numThreads) \ pending : \A k \in Keys :
              /\ threadBCount[t][k] = TypeCount(t, k, "b")
              /\ threadACount[t][k] = TypeCount(t, k, "a")
              /\ bStarCount[t][k] = TypeCount(t, k, "bStar")
        /\ \A i \in 0 .. (inputSize_ - 3) : \A state \in StatesAt(i + 1) :
              TypeOfState(NextTypeState(state, Byte(i), Byte(i + 1))) = get_suffix_type(i)

C11_AllTypesCounted ==
    /\ pc = "count"
    /\ pending = {}
    /\ inputSize_ = MaxLen
    /\ \E k1, k2, k3 \in Keys :
          /\ threadBCount[0][k1] > 0
          /\ threadACount[0][k2] > 0
          /\ bStarCount[0][k3] > 0

\* the positions i a finished count_suffixes task has swept together with
\* position i + 1, where both hold the same byte
RunSteps ==
    {i \in 0 .. (inputSize_ - 3) :
        /\ Byte(i) = Byte(i + 1)
        /\ \E t \in Threads(numThreads) \ pending : {i, i + 1} \subseteq SweptBy(t)}

\* C12 as stated: where T[i] = T[i+1] the sweep gives position i the type
\* it gave position i + 1, for each of the types A, B and B*
C12_RunKeepsEveryType ==
    pc = "count" =>
        \A i \in RunSteps : \A state \in StatesAt(i + 1) :
            TypeOfState(NextTypeState(state, Byte(i), Byte(i + 1))) = TypeOfState(state)

\* C12 as the code has it: where T[i] = T[i+1] the sweep gives position i
\* the type of position i + 1 when that type is A or B, and type B when
\* position i + 1 is B*
C12_RunKeepsTypeAAndB ==
    pc = "count" =>
        \A i \in RunSteps : \A state \in StatesAt(i + 1) :
            TypeOfState(NextTypeState(state, Byte(i), Byte(i + 1))) =
                IF TypeOfState(state) = "bStar" THEN "b" ELSE TypeOfState(state)

C12_RunBeforeBStar ==
    /\ pc = "count"
    /\ inputSize_ = MaxLen
    /\ \E i \in RunSteps : get_suffix_type(i + 1) = "bStar" /\ get_suffix_type(i) = "b"

\* ----------------------------------------------------------------------
\* The layout at the end of first_stage_its
\* ----------------------------------------------------------------------
\* the first slot of the two-byte bucket k and of its type B part, and the
\* slots of that part (bCount counts the B* suffixes too)
BucketBegin(k) == 1 + SumOver([j \in Keys |-> aCount[j] + bCount[j]], {j \in Keys : j < k})
BRegionBegin(k) == BucketBegin(k) + aCount[k]
BRegion(k) == BRegionBegin(k) .. (BRegionBegin(k) + bCount[k] - 1)
\* the entry x is the index of a B* suffix with the two-byte key k
IsBStarEntry(x, k) ==
    /\ IndexOf(x) < inputSize_ - 1
    /\ get_suffix_type(IndexOf(x)) = "bStar"
    /\ Key16(IndexOf(x)) = k
\* first_stage_its has returned without having written behind the array
FirstStageDone == pc = "spread" /\ inputSize_ >= 1

\* C13 as stated: after the spread, in every two-byte bucket the sorted B*
\* entries are in the last slots of the type B part and the slots of the B
\* suffixes still to be induced lie before them
C13_BStarAtTailOfBRegion ==
    FirstStageDone =>
        \A k \in Keys : \A slot \in BRegion(k) :
            IF slot < BRegionBegin(k) + (bCount[k] - totalBStarCount[k])
            THEN SA[slot] = suffix_is_unsorted_b_type
            ELSE IsBStarEntry(SA[slot], k)

\* C13 as the code has it: after the spread, in every two-byte bucket the
\* type A slots come first, then the B* entries in increasing order of their
\* suffixes, and the slots of the B suffixes still to be induced, which hold
\* suffix_is_unsorted_b_type, lie behind them
C13_BStarAtHeadOfBRegion ==
    FirstStageDone =>
        \A k \in Keys :
            /\ \A slot \in BucketBegin(k) .. (BRegionBegin(k) - 1) :
                  SA[slot] = preceding_suffix_is_type_a_flag
            /\ \A slot \in BRegion(k) :
                  IF slot < BRegionBegin(k) + totalBStarCount[k]
                  THEN /\ IsBStarEntry(SA[slot], k)
                       /\ slot > BRegionBegin(k) =>
                              SuffixLess(input, IndexOf(SA[slot - 1]), IndexOf(SA[slot]))
                  ELSE SA[slot] = suffix_is_unsorted_b_type

C13_BucketWithBStarAndB ==
    /\ FirstStageDone
    /\ \E k \in Keys :
          /\ totalBStarCount[k] >= 2
          /\ bCount[k] > totalBStarCount[k]
          /\ IsBStarEntry(SA[BRegionBegin(k)], k)
          /\ SA[BRegionBegin(k) + bCount[k] - 1] = suffix_is_unsorted_b_type

\* ----------------------------------------------------------------------
\* The sorted B* partitions
\* ----------------------------------------------------------------------
\* the barrier behind the complete_tandem_repeats tasks is passed
TandemBarrierPassed == pc = "tandem" /\ pending = {}
\* the B* positions with the two-byte key k: what the radix sort tasks
\* scatter into the partition of k
BStarPositions(k) ==
    {i \in 0 .. (inputSize_ - 2) : get_suffix_type(i) = "bStar" /\ Key16(i) = k}

\* C14: when the barrier behind complete_tandem_repeats is passed, the slots
\* of every B* partition (start, size, key) hold the B* positions of that key,
\* each once and no other index, in strictly increasing order of their
\* suffixes
C14_PartitionsSorted ==
    TandemBarrierPassed =>
        \A n \in DOMAIN partitions :
            LET start == partitions[n][1]
                size == partitions[n][2]
                held == [j \in 0 .. (size - 1) |-> IndexOf(SA[start + j])]
            IN /\ {held[j] : j \in 0 .. (size - 1)} = BStarPositions(partitions[n][3])
               /\ Cardinality(BStarPositions(partitions[n][3])) = size
               /\ \A j \in 0 .. (size - 2) : SuffixLess(input, held[j], held[j + 1])

C14_LargePartitionSorted ==
    /\ TandemBarrierPassed
    /\ \E n \in DOMAIN partitions :
          /\ partitions[n][2] > insertion_sort_threshold
          /\ IndexOf(SA[partitions[n][1]]) > IndexOf(SA[partitions[n][1] + 1])

\* ----------------------------------------------------------------------
\* The rounds of the multi threaded right to left pass
\* ----------------------------------------------------------------------
\* C15: every round of the multi threaded right to left pass (a step from the
\* top of its while loop to the posting of the reading tasks) moves
\* currentSuffix at least one slot to the left, also when the entry of
\* suffix 0 is in the array
C15_RoundMovesLeft ==
    [][(pc = "mt_r2l" /\ pc' = "mt_r2l_read") => currentSuffix' < currentSuffix]_vars

\* ----------------------------------------------------------------------
\* The phases of a round of the multi threaded passes
\* ----------------------------------------------------------------------
ScatterPhases == {"mt_r2l_scatter", "mt_l2r_scatter"}
ReservePhases == {"mt_r2l_reserve", "mt_l2r_reserve"}
ReadPhases == {"mt_r2l_read", "mt_l2r_read"}
\* the slots the scattering task of thread t writes in the current scatter
\* phase: the right to left task writes below its cursors, the left to
\* right task from its cursors on; a task that has run has moved its cursors
\* over the slots it wrote
ScatterSlots(t) ==
    LET count == CountSymbols(cache[t])
        down == pc = "mt_r2l_scatter"
        todo == t \in pending
    IN UNION {{IF down = todo THEN dest[t][c] - j ELSE dest[t][c] + (j - 1) :
                  j \in 1 .. count[c]} : c \in Alphabet}
\* the cursor entries the reserving task of thread t writes: for each of its
\* symbols dest and sCount of every thread, and the bucket offset
CursorsOf(t) == Threads(numThreads) \X SymbolsOf(t)

\* a step into a scatter phase is taken from the reservation phase with no
\* task pending, and a step into a reservation phase from the read phase
PhaseAfterBarrier ==
    /\ (pc' \in ScatterPhases /\ pc' # pc) =>
           (pc \in ReservePhases /\ pending = {} /\ pending' = Threads(numThreads))
    /\ (pc' \in ReservePhases /\ pc' # pc) =>
           (pc \in ReadPhases /\ pending = {} /\ pending' = Threads(numThreads))

C17_WritesOutsideWindow ==
    pc \in ScatterPhases =>
        \A t \in Threads(numThreads) : \A slot \in ScatterSlots(t) :
            IF pc = "mt_r2l_scatter" THEN slot <= currentSuffix ELSE slot >= currentSuffix

C17_WriteAtWindowBound ==
    /\ pc = "mt_r2l_scatter"
    /\ pending = {}
    /\ \E t \in Threads(numThreads) : currentSuffix \in ScatterSlots(t)
    /\ taskBegin[0] > currentSuffix

\* ----------------------------------------------------------------------
\* The dispatch of the B* partitions
\* ----------------------------------------------------------------------
\* the barrier behind the sorting tasks is passed
DispatchBarrierPassed == pc = "quicksort" /\ pending = {}
\* the slots of partition n hold the B* positions of its key
HoldsItsPositions(n) ==
    {IndexOf(SA[partitions[n][1] + j]) : j \in 0 .. (partitions[n][2] - 1)}
        = BStarPositions(partitions[n][3])
\* the slots of partition n are in increasing order of their suffixes
InSuffixOrder(n) ==
    \A j \in 0 .. (partitions[n][2] - 2) :
        SuffixLess(input, IndexOf(SA[partitions[n][1] + j]),
                   IndexOf(SA[partitions[n][1] + j + 1]))
\* a step of the sorting tasks: the counter stays or goes down by one; a
\* thread starts a call of multikey_quicksort on a partition only in the step
\* that takes the counter from partitionIndex + 1 to partitionIndex, the call
\* is on the partition of that index, and no other thread starts one in it;
\* and every step that takes the counter to an index starts that call
TakenOnce ==
    (pc = "quicksort" /\ pc' = "quicksort") =>
        LET starts(t) == callStack[t] = <<>> /\ callStack'[t] # <<>>
            partition == partitions[partitionCount]
        IN /\ partitionCount' \in {partitionCount, partitionCount - 1}
           /\ \A t \in Threads(numThreads) : starts(t) =>
                 /\ partitionCount' = partitionCount - 1
                 /\ partitionCount >= 1
                 /\ callStack'[t] = <<Frame(partition[1], partition[1] + partition[2], 2, 0,
                                            <<0, partition[3]>>)>>
                 /\ \A u \in Threads(numThreads) \ {t} : callStack'[u] = callStack[u]
           /\ (partitionCount' = partitionCount - 1 /\ partitionCount >= 1) =>
                 \E t \in Threads(numThreads) : starts(t)

\* C18 as stated: each partition is passed to multikey_quicksort once, by
\* one thread, and when the barrier behind the dispatch is passed every
\* partition is sorted
C18_TakenOnceAndSortedAtBarrier ==
    /\ [][TakenOnce]_vars
    /\ [](DispatchBarrierPassed =>
            /\ partitionCount = -numThreads
            /\ \A n \in DOMAIN partitions : HoldsItsPositions(n) /\ InSuffixOrder(n))

\* C18 as the code has it: each partition is passed to multikey_quicksort
\* once, by one thread; when the barrier behind the dispatch is passed every
\* index has been taken, every call has returned and every partition holds
\* its B* positions, in sorted order if no thread has set tandem repeats
\* aside for complete_tandem_repeats
C18_TakenOnceAndReturnedAtBarrier ==
    /\ [][TakenOnce]_vars
    /\ [](DispatchBarrierPassed =>
            /\ partitionCount = -numThreads
            /\ \A t \in Threads(numThreads) : Idle(t)
            /\ \A n \in DOMAIN partitions :
                  /\ HoldsItsPositions(n)
                  /\ (\A t \in Threads(numThreads) : tandemRepeatStack[t] = <<>>)
                         => InSuffixOrder(n))

C18_TwoThreadsSorting ==
    /\ pc = "quicksort"
    /\ numThreads = MaxThreads
    /\ Len(partitions) >= 2
    /\ \A t \in Threads(numThreads) : callStack[t] # <<>>

\* ----------------------------------------------------------------------
\* The type A flag of the entries
\* ----------------------------------------------------------------------
\* the slots that hold suffix array entries the left to right pass has not
\* consumed: in the first stage the slots of the B* partitions, from the
\* spread on the whole array, and in the left to right pass the slots from
\* currentSuffix on
EntrySlots ==
    CASE pc \in {"radix", "quicksort", "tandem"} -> 0 .. (bStarTotal - 1)
      [] pc \in {"spread", "r2l", "mt_r2l"} \cup ReadPhases \cup ReservePhases
               \cup ScatterPhases \cup {"l2r", "mt_l2r"} ->
             IF pc \in {"l2r", "mt_l2r", "mt_l2r_read", "mt_l2r_reserve", "mt_l2r_scatter"}
             THEN currentSuffix .. inputSize_
             ELSE SlotRange
      [] OTHER -> {}
\* the entry x of a suffix index i >= 1 carries the flag exactly if suffix
\* i - 1 is of type A
FlagTellsTypeA(x) ==
    IndexOf(x) >= 1 => (HasFlag(x) <=> get_suffix_type(IndexOf(x) - 1) = "a")

\* C19: from the scatter of the first stage until the left to right pass
\* consumes the slot, every slot of the suffix array that holds a suffix
\* index i >= 1 has the top bit set if and only if suffix i - 1 is type A
C19_FlagIffPrecedingTypeA ==
    (op = "make_suffix_array" /\ inputSize_ >= 1) =>
        \A slot \in EntrySlots : FlagTellsTypeA(SA[slot])

C19_EntriesOfAllWriters ==
    /\ op = "make_suffix_array"
    /\ pc = "l2r"
    /\ currentSuffix = 1
    /\ inputSize_ = MaxLen
    /\ \E slot \in EntrySlots : get_suffix_type(IndexOf(SA[slot])) = "bStar" /\ ~HasFlag(SA[slot])
    /\ \E slot \in EntrySlots : get_suffix_type(IndexOf(SA[slot])) = "b" /\ HasFlag(SA[slot])
                                  /\ IndexOf(SA[slot]) >= 1
    /\ SA[frontBucketOffset_[Byte(inputSize_ - 1)] - 1] = inputSize_ - 1

\* ----------------------------------------------------------------------
\* What the right to left pass writes
\* ----------------------------------------------------------------------
RightToLeftPhases == {"r2l", "mt_r2l"} \cup {"mt_r2l_read", "mt_r2l_reserve", "mt_r2l_scatter"}
\* the cursor of the two-byte bucket k: backBucketOffset_ is indexed by the
\* second byte first
Cursor(k) == backBucketOffset_[(LowByte(k) * 256) + HighByte(k)]
\* the first slot of bucket k behind its B* entries, and the slots from
\* there to the end of the bucket: those of its B suffixes that are not B*
FirstInducedSlot(k) == BRegionBegin(k) + totalBStarCount[k]
InducedSlots(k) == FirstInducedSlot(k) .. (BRegionBegin(k) + bCount[k] - 1)
\* a step of the right to left pass changes only slots of B suffixes that
\* are not B*, each holding suffix_is_unsorted_b_type until then and lying at
\* or right of the cursor of its bucket
WritesInducedSlotsOnly ==
    (pc \in RightToLeftPhases /\ pc' \in RightToLeftPhases) =>
        \A slot \in SlotRange : SA'[slot] # SA[slot] =>
            /\ SA[slot] = suffix_is_unsorted_b_type
            /\ \E k \in Keys : slot \in InducedSlots(k) /\ slot >= Cursor(k)'

\* C20: the right to left pass of make_suffix_array changes only slots of
\* non-B* B suffixes (not SA[0], no type A slot, no slot of a B* entry), each
\* of them once; no cursor is left of the first such slot of its bucket, and
\* when the pass has ended every cursor is at that slot, so every such slot
\* was written
C20_RightToLeftFrame ==
    /\ [][WritesInducedSlotsOnly]_vars
    /\ [](pc \in RightToLeftPhases =>
            \A k \in Keys :
                /\ Cursor(k) >= FirstInducedSlot(k)
                /\ (pc \in {"r2l", "mt_r2l"} /\ symbol < 0) => Cursor(k) = FirstInducedSlot(k))

C20_PassEndedWithInducedSlots ==
    /\ pc \in {"r2l", "mt_r2l"}
    /\ symbol < 0
    /\ numThreads = MaxThreads
    /\ \E k \in Keys : totalBStarCount[k] > 0
    /\ \E k \in Keys :
          /\ InducedSlots(k) # {}
          /\ \A slot \in InducedSlots(k) : SA[slot] # suffix_is_unsorted_b_type

\* ----------------------------------------------------------------------
\* The forward transform
\* ----------------------------------------------------------------------
\* the transform of s by definition: the rank of suffix 0 among the N + 1
\* suffixes, and the bytes in front of the suffixes in increasing rank with
\* the rank of suffix 0 left out
ReferenceSentinelIndex(s) == Rank(s, 0)
ReferenceBWT(s) ==
    [j \in 1 .. Len(s) |->
        s[ReferenceSA(s)[IF j - 1 < ReferenceSentinelIndex(s) THEN j - 1 ELSE j]]]

\* C5: for a non-empty input T, forward_burrows_wheeler_transform with one
\* thread returns the rank k at which SA[k] = 0, a value in 0 .. N, and
\* leaves in the buffer the N bytes T[SA[k] - 1] for k = 0 .. N in
\* increasing k without k = sentinelIndex
C5_ForwardTransform ==
    (Returned("forward_burrows_wheeler_transform", 1) /\ Len(original) >= 1) =>
        /\ sentinelIndex \in 0 .. Len(original)
        /\ ReferenceSA(original)[sentinelIndex] = 0
        /\ sentinelIndex = ReferenceSentinelIndex(original)
        /\ input = ReferenceBWT(original)

C5_TransformReturned ==
    /\ Returned("forward_burrows_wheeler_transform", 1)
    /\ Len(original) = MaxLen
    /\ sentinelIndex \in 2 .. (MaxLen - 1)
    /\ input # original
    /\ \E j \in 1 .. MaxLen : input[j] # input[1]

\* C6 as stated: forward_burrows_wheeler_transform of banana leaves nnbaaa in
\* the buffer and returns 3
C6_BananaAsStated ==
    (Returned("forward_burrows_wheeler_transform", 1) /\ original = Banana) =>
        /\ input = <<Letter.n, Letter.n, Letter.b, Letter.a, Letter.a, Letter.a>>
        /\ sentinelIndex = 3

\* C6 as the code has it: forward_burrows_wheeler_transform of banana leaves
\* annbaa in the buffer and returns 4, the rank of suffix 0 when the empty
\* suffix has rank 0
C6_Banana ==
    (Returned("forward_burrows_wheeler_transform", 1) /\ original = Banana) =>
        /\ input = <<Letter.a, Letter.n, Letter.n, Letter.b, Letter.a, Letter.a>>
        /\ sentinelIndex = 4

C6_BananaReturned ==
    /\ Returned("forward_burrows_wheeler_transform", 1)
    /\ original = Banana
    /\ Len(input) = 6

\* ----------------------------------------------------------------------
\* The empty input
\* ----------------------------------------------------------------------
\* C7: make_suffix_array on the empty input returns the array of the one
\* element 0: the call reads and writes nothing outside the input and the
\* array, and what it returns is that array
C7_EmptyInputReturnsZero ==
    (op = "make_suffix_array" /\ Len(original) = 0) =>
        /\ ub = ""
        /\ pc # "fault"
        /\ pc = "done" => SA = [k \in {0} |-> 0]

\* ----------------------------------------------------------------------
\* The tandem repeat inputs
\* ----------------------------------------------------------------------
\* C8: for every k in 1 .. MaxK and each of the inputs (ab)^k, (abc)^k and
\* a(ab)^k c, make_suffix_array returns the array that lists the N + 1
\* suffixes in the order given by comparing them pairwise
C8_TandemInputsSorted ==
    (Returned("make_suffix_array", 1) /\ original \in TandemInputs) =>
        SA = ReferenceSA(original)

C8_LongestTandemInputReturned ==
    /\ Returned("make_suffix_array", 1)
    /\ original = RepAABC(MaxK)
    /\ SA[1] = 0
    /\ SA[Len(original)] = Len(original) - 1

\* ----------------------------------------------------------------------
\* The reverse transform: the sentinel index and the round loop
\* ----------------------------------------------------------------------
\* reverse_burrows_wheeler_transform called by the caller itself on a buffer
\* that is not empty, with a sentinel index outside [0, N]
InvalidSentinelCall ==
    /\ op = "reverse_burrows_wheeler_transform"
    /\ ~roundTrip
    /\ Len(original) >= 1
    /\ (sentinelIndex < 0 \/ sentinelIndex > Len(original))

\* C9: a call of reverse_burrows_wheeler_transform with sentinelIndex < 0 or
\* sentinelIndex > N is rejected: the buffer is not modified, nothing is read
\* outside the buffer or the index, no partition is started from the entry
\* that holds sentinelIndex, and the call does not return as if it had decoded
C9_InvalidSentinelRejected ==
    InvalidSentinelCall =>
        /\ input = original
        /\ ub = ""
        /\ ibwtPartitionInfo = <<>>
        /\ pc \notin {"done", "fault"}

\* the pair handed to the reverse transform is the forward transform of a
\* string: the one forward_burrows_wheeler_transform returned, the empty
\* buffer with sentinel index 0, or the transform of (ab)^LongK
ValidPair ==
    /\ op = "reverse_burrows_wheeler_transform"
    /\ \/ roundTrip
       \/ Len(original) = 0 /\ sentinelIndex = 0
       \/ original = LongTransform /\ sentinelIndex = LongK

HasOutputSpace(e) == e.currentOutput_ # nullptr /\ e.currentOutput_ < e.endOutput_

\* C10: on the forward transform of a string, whenever the round loop of
\* reverse_burrows_wheeler_transform is at its head with partitions left,
\* one of them has output space
C10_SomePartitionHasOutputSpace ==
    (ValidPair /\ pc = "ibwt_round") =>
        \E j \in DOMAIN ibwtPartitionInfo : HasOutputSpace(ibwtPartitionInfo[j])

\* the same for the transforms of the strings of length N >= 1
C10_SomePartitionHasOutputSpaceNonEmpty ==
    (ValidPair /\ pc = "ibwt_round" /\ Len(original) >= 1) =>
        \E j \in DOMAIN ibwtPartitionInfo : HasOutputSpace(ibwtPartitionInfo[j])

\* C10: on the forward transform of a string the round loop ends
C10_RoundLoopEnds ==
    (ValidPair /\ pc = "ibwt_round") ~> (pc \in {"ibwt_assemble", "done"})

\* ----------------------------------------------------------------------
\* The first stage: the counts and the bucket layout
\* ----------------------------------------------------------------------
FirstStageCall == op \in {"make_suffix_array", "forward_burrows_wheeler_transform"}
\* the positions of the input that start with byte c and have the given types
PositionsOf(c, types) ==
    {i \in 0 .. (inputSize_ - 1) : Byte(i) = c /\ get_suffix_type(i) \in types}

\* C21: after the count reduction of first_stage_its on an input of length
\* N >= 1, aCount_[c] is the number of type A positions and bCount_[c] the
\* number of type B and B* positions that start with c, so the counts add up
\* to N; the bucket layout computed from them covers N + 1 slots
C21_EveryPositionCountedOnce ==
    (FirstStageCall /\ inputSize_ >= 1) =>
        /\ pc = "offsets" =>
              /\ \A c \in Alphabet :
                    /\ aCount_[c] = Cardinality(PositionsOf(c, {"a"}))
                    /\ bCount_[c] = Cardinality(PositionsOf(c, {"b", "bStar"}))
              /\ SumOver([c \in Alphabet |-> aCount_[c] + bCount_[c]], Alphabet) = inputSize_
        /\ pc = "radix" =>
              /\ total = inputSize_ + 1
              /\ \A k \in Keys :
                    backBucketOffset_[(LowByte(k) * 256) + HighByte(k)] <= inputSize_ + 1

C21_CountedByTwoThreads ==
    /\ FirstStageCall
    /\ pc = "radix"
    /\ numThreads = MaxThreads
    /\ inputSize_ = MaxLenMT
    /\ \E c \in Alphabet : aCount_[c] >= 1 /\ bCount_[c] >= 1
    /\ total = inputSize_ + 1

\* ----------------------------------------------------------------------
\* The first stage: the scatter sweep
\* ----------------------------------------------------------------------
\* the slots the radix sort task of thread t writes: for every key, as many
\* slots as the thread counted B* positions, from its offset on (a finished
\* task has moved its offsets behind them)
RadixSlots(t) ==
    UNION {IF t \in pending
           THEN bStarOffset[t][k] .. ((bStarOffset[t][k] + bStarCount[t][k]) - 1)
           ELSE (bStarOffset[t][k] - bStarCount[t][k]) .. (bStarOffset[t][k] - 1) :
           k \in {j \in Keys : bStarCount[t][j] > 0}}
AllBStarPositions == {i \in 0 .. (inputSize_ - 2) : get_suffix_type(i) = "bStar"}
\* the two bytes at the head of suffix i
HeadOf(i) == (input[i + 1] * 256) + input[i + 2]

\* a radix sort task changes only slots of the thread that ran it
RadixTaskWritesOwnSlots ==
    (pc = "radix" /\ pc' = "radix" /\ SA' # SA) =>
        \E t \in pending \ pending' :
            \A i \in SlotRange : SA'[i] # SA[i] => i \in RadixSlots(t)

ScatterSweepDone == FirstStageCall /\ pc = "radix" /\ pending = {} /\ inputSize_ >= 1

\* C22: while the radix sort tasks run, the slots of two threads are disjoint
\* and a task writes slots of its own thread only; when all have finished,
\* the first bStarTotal slots hold every B* position once, in ascending order
\* of the two bytes at the head of the suffix
C22_ScatterSweep ==
    /\ []((FirstStageCall /\ pc = "radix") =>
             \A t, u \in Threads(numThreads) :
                 t # u => RadixSlots(t) \cap RadixSlots(u) = {})
    /\ [](ScatterSweepDone =>
             /\ bStarTotal = Cardinality(AllBStarPositions)
             /\ {IndexOf(SA[i]) : i \in 0 .. (bStarTotal - 1)} = AllBStarPositions
             /\ \A i, j \in 0 .. (bStarTotal - 1) :
                   i < j => HeadOf(IndexOf(SA[i])) <= HeadOf(IndexOf(SA[j])))
    /\ [][RadixTaskWritesOwnSlots]_vars

C22_TwoThreadsScatterOneKey ==
    /\ ScatterSweepDone
    /\ numThreads = MaxThreads
    /\ \E k \in Keys : \A t \in Threads(numThreads) : bStarCount[t][k] >= 1
    /\ bStarTotal >= MaxThreads

\* ----------------------------------------------------------------------
\* multikey_quicksort: the seven way partition
\* ----------------------------------------------------------------------
\* thread t has executed a call of multikey_quicksort up to its seven
\* recursive calls
SplitBy(t) ==
    /\ pc = "quicksort"
    /\ t \in pending
    /\ callStack[t] # <<>>
    /\ Len(callStack'[t]) = Len(callStack[t]) + 6
\* the window key of the entry in slot i of the suffix array after the step
KeyAfter(i, matchLen) == get_value(matchLen, SA'[i])
SlotsOf(frame) == frame.suffixArrayBegin .. (frame.suffixArrayEnd - 1)

SevenRanges(t) ==
    LET call == Head(callStack[t])
        m == call.currentMatchLength
        f == [n \in 1 .. 7 |-> callStack'[t][n]]
        whole == call.suffixArrayBegin .. (call.suffixArrayEnd - 1)
        split == f[1].suffixArrayBegin .. (call.suffixArrayEnd - 1)
        keys == {KeyAfter(i, m) : i \in split}
    IN /\ Cardinality(split) >= insertion_sort_threshold
       \* the same entries as before, and nothing else is touched
       /\ {SA'[i] : i \in whole} = {SA[i] : i \in whole}
       /\ Cardinality({SA'[i] : i \in whole}) = Cardinality(whole)
       /\ \A i \in SlotRange \ whole : SA'[i] = SA[i]
       \* seven contiguous ranges
       /\ f[1].suffixArrayBegin >= call.suffixArrayBegin
       /\ f[7].suffixArrayEnd = call.suffixArrayEnd
       /\ \A n \in 1 .. 6 : f[n].suffixArrayEnd = f[n + 1].suffixArrayBegin
       /\ \A n \in 1 .. 7 : f[n].suffixArrayBegin <= f[n].suffixArrayEnd
       \* ordered by the window key around three pivots
       /\ \E p1, p2, p3 \in keys :
             /\ p1 <= p2 /\ p2 <= p3
             /\ \A i \in SlotsOf(f[1]) : KeyAfter(i, m) < p1
             /\ \A i \in SlotsOf(f[2]) : KeyAfter(i, m) = p1
             /\ \A i \in SlotsOf(f[3]) : KeyAfter(i, m) > p1 /\ KeyAfter(i, m) < p2
             /\ \A i \in SlotsOf(f[4]) : KeyAfter(i, m) = p2
             /\ \A i \in SlotsOf(f[5]) : KeyAfter(i, m) > p2 /\ KeyAfter(i, m) < p3
             /\ \A i \in SlotsOf(f[6]) : KeyAfter(i, m) = p3
             /\ \A i \in SlotsOf(f[7]) : KeyAfter(i, m) > p3
       \* the match length of the recursive calls
       /\ \A n \in {2, 4, 6} : f[n].currentMatchLength = m + sizeof_suffix_value
       /\ \A n \in {1, 3, 5, 7} : f[n].currentMatchLength = m

\* C23: a call of multikey_quicksort that runs the partition loop (on 16
\* entries or more) leaves the entries of the partition in seven contiguous
\* ranges < p1, = p1, between p1 and p2, = p2, between p2 and p3, = p3, > p3
\* of the window key at the match length, p1 <= p2 <= p3; the three ranges
\* of equal keys are sorted on with the match length plus 4, the other four
\* with the match length unchanged
C23_SevenWayPartition ==
    [][\A t \in Threads(numThreads) : SplitBy(t) => SevenRanges(t)]_vars

\* the calls of a partition that was split around three different pivots,
\* and of one split around equal pivots, are on the stack
ThreeRangesOfEqualKeys(t) ==
    /\ Len(callStack[t]) = 7
    /\ \A n \in {2, 4, 6} :
          /\ callStack[t][n].suffixArrayEnd > callStack[t][n].suffixArrayBegin
          /\ callStack[t][n].currentMatchLength = 2 + sizeof_suffix_value
    /\ \E n \in {1, 3, 5, 7} :
          callStack[t][n].suffixArrayEnd > callStack[t][n].suffixArrayBegin
C23_SplitAroundThreePivots ==
    /\ pc = "quicksort"
    /\ original \in PivotInputs
    /\ ThreeRangesOfEqualKeys(0)
    /\ callStack[0][2].endingPattern[2] < callStack[0][4].endingPattern[2]
    /\ callStack[0][4].endingPattern[2] < callStack[0][6].endingPattern[2]

C23_SplitAroundEqualPivots ==
    /\ pc = "quicksort"
    /\ Len(callStack[0]) >= 7
    /\ callStack[0][2].endingPattern[2] = callStack[0][4].endingPattern[2]
    /\ callStack[0][2].currentMatchLength = callStack[0][4].currentMatchLength
    /\ callStack[0][1].currentMatchLength + sizeof_suffix_value
           = callStack[0][2].currentMatchLength
    /\ callStack[0][4].suffixArrayEnd - callStack[0][2].suffixArrayBegin >= 2

\* ----------------------------------------------------------------------
\* partition_tandem_repeats: the repeats and the terminators
\* ----------------------------------------------------------------------
\* thread t has run partition_tandem_repeats and it has pushed a record
DetectedBy(t) ==
    /\ pc = "quicksort"
    /\ Len(tandemRepeatStack'[t]) > Len(tandemRepeatStack[t])
\* the partition the call was made on: that of the running insertion sort,
\* or that of the call of multikey_quicksort at the top of the stack
CalledOn(t) ==
    IF insertionStack[t] # <<>>
    THEN <<insertionBegin[t],
           insertionBegin[t] + insertionStack[t][Len(insertionStack[t])].size_>>
    ELSE <<Head(callStack[t]).suffixArrayBegin, Head(callStack[t]).suffixArrayEnd>>
\* the indexes of S whose successor in S is exactly period later
RepeatsOf(S, period) ==
    {x \in S : (x + period) \in S /\ \A y \in S : ~(x < y /\ y < x + period)}

RepeatsFirst(t) ==
    LET record == tandemRepeatStack'[t][Len(tandemRepeatStack'[t])]
        begin == record.partitionBegin_
        end == record.partitionEnd_
        r == (end - begin) - record.numTerminators_
        before == {IndexOf(SA[i]) : i \in begin .. (end - 1)}
    IN /\ Len(tandemRepeatStack'[t]) = Len(tandemRepeatStack[t]) + 1
       /\ <<begin, end>> = CalledOn(t)
       /\ record.tandemRepeatLength_ >= 1
       /\ r >= 1 /\ r < end - begin
       /\ {SA'[i] : i \in begin .. (end - 1)} = {SA[i] : i \in begin .. (end - 1)}
       /\ Cardinality(before) = end - begin
       /\ {IndexOf(SA'[i]) : i \in begin .. ((begin + r) - 1)}
             = RepeatsOf(before, record.tandemRepeatLength_)
       /\ {IndexOf(SA'[i]) : i \in (begin + r) .. (end - 1)}
             = before \ RepeatsOf(before, record.tandemRepeatLength_)

\* C24: when partition_tandem_repeats has found a period, the partition
\* holds the entries it held, its first r slots hold the repeats (the entries
\* whose successor by index in the partition is one period later) and the
\* other slots the terminators, 0 < r < the size of the partition, and one
\* record of the partition, the number of terminators and the period has
\* been pushed on the stack of the thread
C24_RepeatsThenTerminators ==
    [][\A t \in Threads(numThreads) : DetectedBy(t) => RepeatsFirst(t)]_vars

C24_RepeatsAndTerminatorsRecorded ==
    /\ pc = "quicksort"
    /\ tandemRepeatStack[0] # <<>>
    /\ LET record == tandemRepeatStack[0][Len(tandemRepeatStack[0])]
       IN /\ record.numTerminators_ >= 2
          /\ (record.partitionEnd_ - record.partitionBegin_) - record.numTerminators_ >= 2
          /\ record.tandemRepeatLength_ >= 2

\* ----------------------------------------------------------------------
\* complete_tandem_repeat: the terminators and their repeats
\* ----------------------------------------------------------------------
\* thread t has completed the tandem repeat at the top of its stack
CompletedBy(t) ==
    /\ pc = "tandem"
    /\ Len(tandemRepeatStack'[t]) < Len(tandemRepeatStack[t])
TopRecord(t) == tandemRepeatStack[t][Len(tandemRepeatStack[t])]
PartitionSlots(record) == record.partitionBegin_ .. (record.partitionEnd_ - 1)
TerminatorsBegin(record) == record.partitionEnd_ - record.numTerminators_
\* the indexes the record's partition holds as repeats and as terminators
\* when complete_tandem_repeat is called
RepeatsIn(record) ==
    {IndexOf(SA[i]) : i \in record.partitionBegin_ .. (TerminatorsBegin(record) - 1)}
TerminatorsIn(record) ==
    {IndexOf(SA[i]) : i \in TerminatorsBegin(record) .. (record.partitionEnd_ - 1)}
\* the terminator at the end of the chain x, x + period, ... of repeats
RECURSIVE TerminatorOf(_, _, _)
TerminatorOf(x, repeats, period) ==
    IF x \in repeats THEN TerminatorOf(x + period, repeats, period) ELSE x
\* numTypeA as complete_tandem_repeat computes it, and the terminators it
\* copies to the front of the partition
NumTypeA(record) ==
    Min(CountTypeA(SA, TerminatorsBegin(record), record.tandemRepeatLength_,
                   0, record.numTerminators_ - 1, 0),
        record.numTerminators_)
SelectedTerminators(record) ==
    {IndexOf(SA[TerminatorsBegin(record) + m]) : m \in 0 .. (NumTypeA(record) - 1)}
\* the slot of the partition that holds index x after the call
SlotAfter(x, record) == CHOOSE i \in PartitionSlots(record) : IndexOf(SA'[i]) = x
SameIndexes(record) ==
    {IndexOf(SA'[i]) : i \in PartitionSlots(record)}
        = RepeatsIn(record) \cup TerminatorsIn(record)

\* C25 as the specification states it: the repeats of the numTypeA
\* terminators the binary search selects sort before them and end up in lower
\* slots, the repeats of the other terminators in higher slots
C25_RepeatsOfTypeABelow ==
    [][\A t \in Threads(numThreads) :
          CompletedBy(t) =>
              /\ SameIndexes(TopRecord(t))
              /\ \A x \in RepeatsIn(TopRecord(t)) :
                    LET end == TerminatorOf(x, RepeatsIn(TopRecord(t)),
                                            TopRecord(t).tandemRepeatLength_)
                    IN IF end \in SelectedTerminators(TopRecord(t))
                       THEN /\ SuffixLess(input, x, end)
                            /\ SlotAfter(x, TopRecord(t)) < SlotAfter(end, TopRecord(t))
                       ELSE /\ SuffixLess(input, end, x)
                            /\ SlotAfter(x, TopRecord(t)) > SlotAfter(end, TopRecord(t))]_vars

\* C25: the numTypeA terminators the binary search selects are the ones that
\* sort before their repeats: they are moved to the front of the partition
\* and their repeats end up in higher slots than they; the repeats of the
\* other terminators sort before them and end up in lower slots
C25_RepeatsOfTypeAAbove ==
    [][\A t \in Threads(numThreads) :
          CompletedBy(t) =>
              /\ SameIndexes(TopRecord(t))
              /\ \A x \in RepeatsIn(TopRecord(t)) :
                    LET end == TerminatorOf(x, RepeatsIn(TopRecord(t)),
                                            TopRecord(t).tandemRepeatLength_)
                    IN IF end \in SelectedTerminators(TopRecord(t))
                       THEN /\ SuffixLess(input, end, x)
                            /\ SlotAfter(x, TopRecord(t)) > SlotAfter(end, TopRecord(t))
                       ELSE /\ SuffixLess(input, x, end)
                            /\ SlotAfter(x, TopRecord(t)) < SlotAfter(end, TopRecord(t))]_vars

\* a tandem repeat with terminators of both kinds is about to be completed
TerminatorsOfBothKinds(t) ==
    /\ pc = "tandem"
    /\ t \in pending
    /\ tandemRepeatStack[t] # <<>>
    /\ NumTypeA(TopRecord(t)) >= 1
    /\ NumTypeA(TopRecord(t)) < TopRecord(t).numTerminators_
\* the tandem repeats of an input with terminators of both kinds are completed
C25_BothKindsCompleted ==
    /\ pc = "tandem"
    /\ original \in TerminatorInputs
    /\ tandemRepeatStack[0] = <<>>
    /\ pending = {}
    /\ \E i, j, k, l \in 0 .. (bStarTotal - 1) :
          /\ i < j /\ j < k /\ k < l
          /\ IndexOf(SA[j]) + 2 = IndexOf(SA[i])
          /\ IndexOf(SA[k]) + 2 = IndexOf(SA[l])

\* C26: over the terminators of a tandem repeat record in their sorted order,
\* "the suffix at t is smaller than the suffix at t + period" is false for
\* the first ones and true for all the others, and the binary search of
\* complete_tandem_repeat returns the number of the terminators for which it
\* is false
C26_BinarySearchCountsTypeA ==
    \A t \in Threads(numThreads) :
        (pc = "tandem" /\ t \in pending /\ tandemRepeatStack[t] # <<>>) =>
            LET record == TopRecord(t)
                at(m) == IndexOf(SA[TerminatorsBegin(record) + m])
                Smaller(m) == SuffixLess(input, at(m), at(m) + record.tandemRepeatLength_)
                ms == 0 .. (record.numTerminators_ - 1)
            IN /\ \A m, n \in ms : (m < n /\ Smaller(m)) => Smaller(n)
               /\ CountTypeA(SA, TerminatorsBegin(record), record.tandemRepeatLength_,
                             0, record.numTerminators_ - 1, 0)
                     = Cardinality({m \in ms : ~Smaller(m)})

C26_SearchOverBothKinds ==
    /\ TerminatorsOfBothKinds(0)
    /\ TopRecord(0).numTerminators_ >= 3

\* ----------------------------------------------------------------------
\* get_value: the window key
\* ----------------------------------------------------------------------
\* byte p of the input, 0 behind its end
ByteOrZero(p) == IF p < inputSize_ THEN input[p + 1] ELSE 0
\* the bytes p .. p + 3 as one number, the first byte the most significant
WindowKey(p) ==
    (ByteOrZero(p) * 16777216) + (ByteOrZero(p + 1) * 65536)
        + (ByteOrZero(p + 2) * 256) + ByteOrZero(p + 3)
\* the tail copy is set up and the input is the caller's
WindowsReadable ==
    /\ FirstStageCall
    /\ pc \in {"count", "quicksort"}
    /\ inputSize_ >= 1
ReadsInside(read) ==
    CASE read.from = "input" ->
             read.first >= 0 /\ read.first + sizeof_suffix_value <= inputSize_
      [] read.from = "copyEnd_" ->
             read.first >= 0 /\ read.first + sizeof_suffix_value <= 2 * sizeof_suffix_value
      [] OTHER -> TRUE

\* C27: for an input of length N >= 1, every offset m, every index i and
\* either value of the flag bit, get_value(T + m, i) is the number the four
\* bytes T[i + m .. i + m + 4) give with the first byte the most significant
\* and 0 for every byte behind the end, and it reads inside T or inside
\* copyEnd_ only
C27_GetValueIsWindowKey ==
    WindowsReadable =>
        \A m \in 0 .. (inputSize_ + sizeof_suffix_value), i \in 0 .. inputSize_ :
            \A index \in {i, WithFlag(i)} :
                /\ get_value(m, index) = WindowKey(i + m)
                /\ ReadsInside(get_value_reads(m, index))

\* a sort is running on an input shorter than the window and on one whose
\* windows are read from the input, from the tail copy and behind the end
C27_ShortInputSorted ==
    /\ WindowsReadable
    /\ pc = "quicksort"
    /\ inputSize_ < sizeof_suffix_value
    /\ bStarTotal >= 1
    /\ get_value(2, SA[0]) > 0

\* ----------------------------------------------------------------------
\* The reverse transform: the partitions, their entries and their output
\* ----------------------------------------------------------------------
DecodingRounds ==
    /\ ValidPair
    /\ inputSize_ >= 1
    /\ pc \in {"ibwt_round", "ibwt_decode", "ibwt_assemble"}
\* the bytes of the buffer a live partition holds: those it has written
\* since it was given its space and those it may still write
OutputOf(e) ==
    IF e.currentOutput_ = nullptr THEN {} ELSE e.beginOutput_ .. (e.endOutput_ - 1)
\* the bytes of a decoded piece
BytesOf_(piece) == piece.begin_ .. (piece.end_ - 1)
\* the index entries a decoded piece stands for: from startIndex_ along
\* value_ up to, not including, endIndex_
EntryStep(st, endIndex) ==
    LET next == IndexOf(ibwtIndex[st.at].value_)
    IN [at |-> next, seen |-> st.seen \cup {st.at}, ended |-> next = endIndex]
RECURSIVE EntriesFrom(_, _, _)
EntriesFrom(st, endIndex, fuel) ==
    IF st.ended \/ fuel = 0 THEN st
    ELSE IF fuel = 1 THEN EntryStep(st, endIndex)
    ELSE CHOOSE last \in {EntriesFrom(half, endIndex, fuel - (fuel \div 2)) :
                              half \in {EntriesFrom(st, endIndex, fuel \div 2)}} : TRUE
EntriesOf(piece) ==
    EntriesFrom([at |-> piece.startIndex_, seen |-> {}, ended |-> FALSE],
                piece.endIndex_, inputSize_ + 1).seen

\* C28: in every round the output of the live partitions lies inside the
\* buffer, no two of them share a byte and none shares a byte with a piece
\* decoded before; the decoded pieces share no byte and no index entry, a
\* piece has one byte for every entry but the sentinel's, and when the round
\* loop has ended the pieces hold every one of the N + 1 entries
C28_EveryEntryDecodedOnce ==
    DecodingRounds =>
        /\ \A j \in DOMAIN ibwtPartitionInfo :
              LET e == ibwtPartitionInfo[j]
              IN /\ e.currentOutput_ # nullptr =>
                       /\ 0 <= e.beginOutput_ /\ e.beginOutput_ <= e.currentOutput_
                       /\ e.currentOutput_ <= e.endOutput_ /\ e.endOutput_ <= inputSize_
                 /\ \A k \in DOMAIN ibwtPartitionInfo :
                       j # k => OutputOf(e) \cap OutputOf(ibwtPartitionInfo[k]) = {}
                 /\ \A n \in DOMAIN decodedInfo :
                       OutputOf(e) \cap BytesOf_(decodedInfo[n]) = {}
        /\ \A n \in DOMAIN decodedInfo :
              /\ BytesOf_(decodedInfo[n]) \subseteq 0 .. (inputSize_ - 1)
              /\ Cardinality(BytesOf_(decodedInfo[n]))
                    = Cardinality(EntriesOf(decodedInfo[n]) \ {sentinelIndex})
              /\ \A m \in DOMAIN decodedInfo :
                    n # m =>
                        /\ BytesOf_(decodedInfo[n]) \cap BytesOf_(decodedInfo[m]) = {}
                        /\ EntriesOf(decodedInfo[n]) \cap EntriesOf(decodedInfo[m]) = {}
        /\ pc = "ibwt_assemble" =>
              UNION {EntriesOf(decodedInfo[n]) : n \in DOMAIN decodedInfo} = 0 .. inputSize_

\* the round loop has ended after more than two rounds on partitions of more
\* than one entry, some of which were given space handed back by others
C28_SeveralRoundsDecoded ==
    /\ DecodingRounds
    /\ pc = "ibwt_assemble"
    /\ original = LongTransform
    /\ numThreads = 1
    /\ Len(decodedInfo) > LongK + 1
    /\ \E n \in DOMAIN decodedInfo : Cardinality(EntriesOf(decodedInfo[n])) >= 2

\* ----------------------------------------------------------------------
\* The inverse suffix array of the first stage
\* ----------------------------------------------------------------------
\* the slot of the suffix array that is ISA[i >> 1]
InverseSlot(i) == inverseSuffixArrayBegin_ + (i \div 2)
\* the slots complete_tandem_repeat reads and writes as ISA entries for a
\* record: one for every repeat it marks and one for every index one period
\* in front of an entry of the partition
InverseSlotsOf(record) ==
    {InverseSlot(x) : x \in RepeatsIn(record)}
    \cup {InverseSlot(x - record.tandemRepeatLength_) :
              x \in {y \in RepeatsIn(record) \cup TerminatorsIn(record) :
                         y >= record.tandemRepeatLength_}}
SortingOrCompleting ==
    /\ FirstStageCall
    /\ inputSize_ >= 1
    /\ pc \in {"quicksort", "tandem"}
\* complete_tandem_repeat changes slots of the record's partition and ISA
\* slots of its repeats only
CompletionWritesItsSlots ==
    \A t \in Threads(numThreads) :
        CompletedBy(t) =>
            \A i \in SlotRange :
                SA'[i] # SA[i] =>
                    \/ i \in PartitionSlots(TopRecord(t))
                    \/ i \in {InverseSlot(x) : x \in RepeatsIn(TopRecord(t))}

\* C29: in the first stage ISA[i >> 1] is a slot of SA[(N+1)/2 .. N] for
\* every index i in [0, N); that region starts at or behind slot bStarTotal,
\* and the partitions the quicksort and the tandem repeat completion work on
\* lie in SA[0 .. bStarTotal); two different B* positions have different ISA
\* slots; every ISA slot complete_tandem_repeat uses is in the region, and the
\* call changes slots of its partition and ISA slots of its repeats only
C29_InverseArrayApart ==
    /\ [](SortingOrCompleting =>
             /\ \A i \in 0 .. (inputSize_ - 1) :
                   InverseSlot(i) \in ((inputSize_ + 1) \div 2) .. inputSize_
             /\ bStarTotal <= inverseSuffixArrayBegin_
             /\ \A x, y \in AllBStarPositions : x # y => InverseSlot(x) # InverseSlot(y)
             /\ \A t \in Threads(numThreads) :
                   /\ \A n \in DOMAIN callStack[t] :
                         SlotsOf(callStack[t][n]) \subseteq 0 .. (bStarTotal - 1)
                   /\ \A n \in DOMAIN tandemRepeatStack[t] :
                         /\ PartitionSlots(tandemRepeatStack[t][n])
                               \subseteq 0 .. (bStarTotal - 1)
                         /\ pc = "tandem" /\ n = Len(tandemRepeatStack[t]) =>
                               InverseSlotsOf(tandemRepeatStack[t][n])
                                   \subseteq inverseSuffixArrayBegin_ .. inputSize_)
    /\ [][CompletionWritesItsSlots]_vars

\* the tandem repeats of an input with several terminators have been
\* completed and their marks are in the inverse suffix array
C29_MarkedAndCompleted ==
    /\ SortingOrCompleting
    /\ pc = "tandem"
    /\ original \in TerminatorInputs
    /\ tandemRepeatStack[0] = <<>>
    /\ bStarTotal >= 2
    /\ \E i, j \in inverseSuffixArrayBegin_ .. inputSize_ :
          i # j /\ MarksRepeat(SA[i], 2) /\ MarksRepeat(SA[j], 2)

\* ----------------------------------------------------------------------
\* the reads of the second stage
\* ----------------------------------------------------------------------
\* C30: on an input of length N >= 1 every read of an input byte in the
\* second stage (the right to left and left to right passes and their
\* transform variants) is at a position in 0 .. N - 1, also when the scanned
\* slot holds suffix index 0: no pass reads inputBegin_[-1]
C30_SecondStageReadsInsideInput ==
    (FirstStageCall /\ inputSize_ >= 1) =>
        ub # "read of inputBegin_[-1] outside the input"

====
